---- MODULE Spec2Model ----
(***************************************************************************)
(* A model of glock, a minimal Bitcoin-style node: the chain store         *)
(* (internal/blockchain), the block and proof of work (internal/block),    *)
(* the Merkle tree, the transaction signer/verifier and the peer handlers  *)
(* (internal/server) that drive the store from concurrent goroutines.      *)
(*                                                                         *)
(* Specifications:                                                         *)
(*   Spec        one node: its store, its handler goroutines, the CLI      *)
(*   SpecMine    Spec where the goroutine in the mining loop is scheduled  *)
(*   SpecPoW     the proof of work of one block: Run, NewBlock, Validate   *)
(*   SpecMerkle  NewMerkleTree over a list of transaction ids              *)
(*   SpecSig     Sign, then Verify, of one input of a transaction          *)
(*   SpecUTXO    the CLI on one chain file: create, send -mine, reindex,   *)
(*               getbalance, and the chainstate bucket they keep           *)
(*   SpecMiners  a miner node with two handler goroutines that mine        *)
(*   SpecNet     the coordinator, a miner and a third peer exchanging      *)
(*               version, getblocks, inv, getdata, block and tx messages   *)
(*   SpecNetFair SpecNet where every message that arrived is handled       *)
(*   SpecPeers   the coordinator facing arbitrary peers and failing dials  *)
(*   SpecAnnounce a node receiving block announcements and blocks from   *)
(*               two peers                                                 *)
(***************************************************************************)
EXTENDS Integers, Sequences, FiniteSets, TLC

VARIABLES
    blocks,           \* bucket "blocks": hash -> block (the key "l" is kept apart)
    l,                \* bucket "blocks", key "l": hash of the persisted tip
    tip,              \* Blockchain.tip, the in-memory tip of the open store
    utxoTip,          \* the tip the chainstate bucket was last derived from
    sha,              \* SHA-256 of the PoW data of the blocks mined so far
    serverUp,         \* whether the node's server process holds the store
    mempool,          \* server global mempool
    blocksInTransit,  \* server global blocksInTransit
    blockMsgs,        \* `block` messages on their way to this node
    th,               \* the handleTx goroutines: pc and locals
    nextCb,           \* number of coinbase transactions created on this node
    ret,              \* what the last step did: operation, result, arguments
    pw,               \* SpecPoW: a header, its digests, the block built on it
    mk,               \* SpecMerkle: a list of transaction ids and its tree
    sg,               \* SpecSig: a key pair, a signature, the signed input
    ux,               \* SpecUTXO: the chain file, the chainstate bucket, the last command
    net               \* SpecNet, SpecPeers, SpecAnnounce: the peers' globals and the messages in flight

nodeVars == <<blocks, l, tip, utxoTip, sha, serverUp, mempool, blocksInTransit,
              blockMsgs, th, nextCb, ret>>

vars == <<blocks, l, tip, utxoTip, sha, serverUp, mempool, blocksInTransit,
          blockMsgs, th, nextCb, ret, pw, mk, sg, ux, net>>

----------------------------------------------------------------------------
(* Bounds of the model *)

\* Height of the remote peer's chain.
MaxPeerHeight == 2
\* Coinbase transactions (hence blocks) this node may create.
MaxMined == 2
\* Stands for maxNonce = math.MaxInt64: the nonces a search may try.
MaxNonce == 3
\* Bits of a digest below the targetBits leading bits (256 - 24 in the code).
RestBits == 4

(* Program constants *)
targetBits == 24
subsidy == 10

HashBits == targetBits + RestBits
\* NewProofOfWork: target = 1 << (256 - targetBits)
Target == 2 ^ (HashBits - targetBits)
MaxDigest == 2 ^ HashBits - 1

\* The empty byte slice used as a hash (genesis predecessor, coinbase Txid).
EmptyHash == -1

Nil == "nil"
ErrBlockExists == "block already exists"
ErrInvalidTransaction == "invalid transaction"
ErrTransactionNotFound == "transaction not found"
\* gob's decode error on the nil slice bolt returns for a missing key
ErrDecode == "EOF"

Put(bucket, key, value) ==
    [k \in DOMAIN bucket \cup {key} |-> IF k = key THEN value ELSE bucket[k]]

RECURSIVE SeqOfSet(_)
SeqOfSet(S) ==
    IF S = {} THEN <<>>
    ELSE LET x == CHOOSE y \in S : \A z \in S : y.ID <= z.ID
         IN <<x>> \o SeqOfSet(S \ {x})

Range(s) == {s[i] : i \in DOMAIN s}

----------------------------------------------------------------------------
(* util.IntToHex: fmt.Sprintf("%x", n), the hex digits of n, no padding *)

RECURSIVE HexDigits(_)
HexDigits(n) == IF n < 16 THEN <<n>> ELSE HexDigits(n \div 16) \o <<n % 16>>

\* A digit is kept as its value 0..15; "-" is kept as 16.
IntToHex(n) == IF n < 0 THEN <<16>> \o HexDigits(-n) ELSE HexDigits(n)

----------------------------------------------------------------------------
(* Merkle tree.  A byte string is a sequence of integers; SHA-256 of a     *)
(* byte string is kept as the string between two marks, which makes it     *)
(* injective, as a collision-free hash is.  A node is kept as its Data.    *)

Sha256(data) == <<-1>> \o data \o <<-2>>

NilNode == <<-3>>

NewMerkleNode(left, right, data) ==
    IF left = NilNode /\ right = NilNode
    THEN Sha256(data)
    ELSE Sha256(left \o right)

\* One pass of the inner loop: for j := 0; j < len(nodes); j += 2.
\* j is 1-based here.  nodes[j+1] beyond the slice panics.
RECURSIVE NewLevel(_, _)
NewLevel(nodes, j) ==
    IF j > Len(nodes) THEN [panic |-> FALSE, nodes |-> <<>>]
    ELSE IF j + 1 > Len(nodes) THEN [panic |-> TRUE, nodes |-> <<>>]
    ELSE LET rest == NewLevel(nodes, j + 2)
         IN [panic |-> rest.panic,
             nodes |-> <<NewMerkleNode(nodes[j], nodes[j + 1], <<>>)>> \o rest.nodes]

\* The outer loop: for i := 0; i < len(data)/2; i++.
RECURSIVE Levels(_, _, _)
Levels(nodes, i, n) ==
    IF i >= n THEN [panic |-> FALSE, nodes |-> nodes]
    ELSE LET lv == NewLevel(nodes, 1)
         IN IF lv.panic THEN lv ELSE Levels(lv.nodes, i + 1, n)

NewMerkleTree(data) ==
    LET d == IF Len(data) % 2 # 0 THEN Append(data, data[Len(data)]) ELSE data
        leaves == [k \in 1..Len(d) |-> NewMerkleNode(NilNode, NilNode, d[k])]
        res == Levels(leaves, 0, Len(d) \div 2)
    IN IF res.panic \/ res.nodes = <<>>
       THEN [panic |-> TRUE, RootNode |-> NilNode]
       ELSE [panic |-> FALSE, RootNode |-> res.nodes[1]]

----------------------------------------------------------------------------
(* Transactions, as far as the store looks at them *)

\* Signature is kept as the outcome of ecdsa.Verify on it: "good" or "bad".
TXInput(txid, vout, sig) ==
    [Txid |-> txid, Vout |-> vout, Signature |-> sig]

CoinbaseID(n) == 100 + n

\* NewCoinbaseTX: one input with empty Txid and Vout -1, one output of subsidy
NewCoinbaseTX(n) ==
    [ID |-> CoinbaseID(n),
     Vin |-> <<TXInput(EmptyHash, -1, "none")>>,
     Vout |-> <<[Value |-> subsidy]>>]

IsCoinbase(tx) ==
    Len(tx.Vin) = 1 /\ tx.Vin[1].Txid = EmptyHash /\ tx.Vin[1].Vout = -1

\* Transaction.Verify: every input's signature must verify
Verify(tx) == \A i \in DOMAIN tx.Vin : tx.Vin[i].Signature = "good"

----------------------------------------------------------------------------
(* Block and proof of work *)

\* Block.HashTransactions
HashTransactions(b) ==
    NewMerkleTree([i \in DOMAIN b.Transactions |-> <<b.Transactions[i].ID>>]).RootNode

\* prepareData joining the nonce before the target bits
prepareDataNonceFirst(b, nonce) ==
    <<b.PrevBlockHash, HashTransactions(b), IntToHex(b.Timestamp),
      IntToHex(nonce), IntToHex(targetBits)>>

\* ProofOfWork.prepareData: the five fields joined in this order
prepareData(b, nonce) ==
    <<b.PrevBlockHash, HashTransactions(b), IntToHex(b.Timestamp),
      IntToHex(targetBits), IntToHex(nonce)>>

\* sha256.Sum256 of PoW data, read as a big-endian integer.  known holds the
\* digests that passed the target; any other data hashes above the target.
PowDigest(known, data) ==
    IF \E e \in known : e.data = data
    THEN (CHOOSE e \in known : e.data = data).sum
    ELSE MaxDigest

\* A search that also stops on a digest equal to the target
RECURSIVE RunFromAtTarget(_, _, _)
RunFromAtTarget(digest, nonce, hash) ==
    IF nonce < MaxNonce
    THEN IF digest[nonce] <= Target
         THEN [nonce |-> nonce, hash |-> digest[nonce]]
         ELSE RunFromAtTarget(digest, nonce + 1, digest[nonce])
    ELSE [nonce |-> nonce, hash |-> hash]

\* ProofOfWork.Run over digest[n], the digest of prepareData(n):
\* for nonce < maxNonce { if hashInt < target { break } else { nonce++ } }
RECURSIVE RunFrom(_, _, _)
RunFrom(digest, nonce, hash) ==
    IF nonce < MaxNonce
    THEN IF digest[nonce] < Target
         THEN [nonce |-> nonce, hash |-> digest[nonce]]
         ELSE RunFrom(digest, nonce + 1, digest[nonce])
    ELSE [nonce |-> nonce, hash |-> hash]

Run(digest) == RunFrom(digest, 0, 0)

\* The digests of a header whose first nonce below the target is n, with sum d.
DigestRow(n, d) == [i \in 0..(MaxNonce - 1) |-> IF i = n THEN d ELSE MaxDigest]

\* block.NewBlock: run the proof of work, keep its nonce and hash
NewBlock(transactions, prevBlockHash, height, timestamp, digest) ==
    LET r == Run(digest)
    IN [Timestamp |-> timestamp, Transactions |-> transactions,
        PrevBlockHash |-> prevBlockHash, Hash |-> r.hash,
        Nonce |-> r.nonce, Height |-> height]

\* ProofOfWork.Validate
Validate(known, b) == PowDigest(known, prepareData(b, b.Nonce)) < Target

NoBlock ==
    [Timestamp |-> 0, Transactions |-> <<>>, PrevBlockHash |-> EmptyHash,
     Hash |-> EmptyHash, Nonce |-> 0, Height |-> 0]

----------------------------------------------------------------------------
(* The blocks that exist outside this node: the genesis block, which every *)
(* node starts from, and the chain the remote peer has mined on it.        *)

GenesisHash == 0
PeerHash(k) == k

\* block.NewGenesisBlock(coinbase)
NewGenesisBlock ==
    NewBlock(<<NewCoinbaseTX(0)>>, EmptyHash, 0, 0, DigestRow(0, GenesisHash))

PeerBlock(k) ==
    NewBlock(<<NewCoinbaseTX(k)>>, IF k = 1 THEN GenesisHash ELSE PeerHash(k - 1),
             k, k, DigestRow(k % MaxNonce, PeerHash(k)))

ShaEntry(b) == [data |-> prepareData(b, b.Nonce), sum |-> b.Hash]

PeerBlockByHash(h) == IF h = GenesisHash THEN NewGenesisBlock ELSE PeerBlock(h)

\* Blockchain.GetBlockHashes on the peer when its tip is at height k
PeerBlockHashes(k) == [i \in 1..(k + 1) |-> IF i = k + 1 THEN GenesisHash ELSE PeerHash(k + 1 - i)]

\* The transactions users submit.  The first spends the genesis coinbase, the
\* second the coinbase of the peer's first block, the third carries a
\* signature that does not verify.
UserTx(n) ==
    [ID |-> 300 + n,
     Vin |-> <<TXInput(CoinbaseID(IF n = 2 THEN 1 ELSE 0), 0,
                       IF n = 3 THEN "bad" ELSE "good")>>,
     Vout |-> <<[Value |-> subsidy]>>]

UserTxs == {UserTx(n) : n \in 1..3}

----------------------------------------------------------------------------
(* The chain store: internal/blockchain *)

\* AddBlock moving the tip on an equal height as well
AddBlockOnTie(bl) ==
    IF bl.Hash \in DOMAIN blocks
    THEN [err |-> ErrBlockExists, blocks |-> blocks, l |-> l, tip |-> tip]
    ELSE LET put == Put(blocks, bl.Hash, bl)
         IN IF bl.Height >= put[l].Height
            THEN [err |-> Nil, blocks |-> put, l |-> bl.Hash, tip |-> bl.Hash]
            ELSE [err |-> Nil, blocks |-> put, l |-> l, tip |-> tip]

\* AddBlock writing the block before it looks for the hash, outside the
\* transaction that the error rolls back
AddBlockPutFirst(bl) ==
    LET put == Put(blocks, bl.Hash, bl)
    IN IF bl.Hash \in DOMAIN blocks
       THEN [err |-> ErrBlockExists, blocks |-> put, l |-> l, tip |-> tip]
       ELSE IF bl.Height > put[l].Height
            THEN [err |-> Nil, blocks |-> put, l |-> bl.Hash, tip |-> bl.Hash]
            ELSE [err |-> Nil, blocks |-> put, l |-> l, tip |-> tip]

\* AddBlock storing the block without looking for its hash first
AddBlockReplace(bl) ==
    LET put == Put(blocks, bl.Hash, bl)
    IN IF l \notin DOMAIN put
       THEN [err |-> ErrDecode, blocks |-> blocks, l |-> l, tip |-> tip]
       ELSE IF bl.Height > put[l].Height
            THEN [err |-> Nil, blocks |-> put, l |-> bl.Hash, tip |-> bl.Hash]
            ELSE [err |-> Nil, blocks |-> put, l |-> l, tip |-> tip]

\* Blockchain.AddBlock: one bolt write transaction.  An error rolls it back.
AddBlock(bl) ==
    IF bl.Hash \in DOMAIN blocks
    THEN [err |-> ErrBlockExists, blocks |-> blocks, l |-> l, tip |-> tip]
    ELSE LET put == Put(blocks, bl.Hash, bl)
         IN IF l \notin DOMAIN put
            THEN [err |-> ErrDecode, blocks |-> blocks, l |-> l, tip |-> tip]
            ELSE IF bl.Height > put[l].Height
                 THEN [err |-> Nil, blocks |-> put, l |-> bl.Hash, tip |-> bl.Hash]
                 ELSE [err |-> Nil, blocks |-> put, l |-> l, tip |-> tip]

\* BlockchainIterator.Next from hash h, as Blockchain.FindTransaction uses it:
\* a key that is not in the bucket fails to decode; the walk ends at the block
\* whose PrevBlockHash is empty.
RECURSIVE FindFrom(_, _, _)
FindFrom(h, ID, fuel) ==
    IF h \notin DOMAIN blocks \/ fuel = 0
    THEN [err |-> ErrDecode]
    ELSE LET b == blocks[h]
         IN IF \E i \in DOMAIN b.Transactions : b.Transactions[i].ID = ID
            THEN [err |-> Nil]
            ELSE IF b.PrevBlockHash = EmptyHash
                 THEN [err |-> ErrTransactionNotFound]
                 ELSE FindFrom(b.PrevBlockHash, ID, fuel - 1)

\* Blockchain.FindTransaction: the iterator starts at bc.tip
FindTransaction(ID) == FindFrom(tip, ID, Cardinality(DOMAIN blocks))

\* The first error among the lookups of the inputs, in input order
RECURSIVE FirstLookupErr(_, _)
FirstLookupErr(tx, i) ==
    IF i > Len(tx.Vin) THEN Nil
    ELSE LET e == FindTransaction(tx.Vin[i].Txid).err
         IN IF e # Nil THEN e ELSE FirstLookupErr(tx, i + 1)

\* Blockchain.VerifyTransaction
VerifyTransaction(tx) ==
    IF IsCoinbase(tx) THEN [ok |-> TRUE, err |-> Nil]
    ELSE LET e == FirstLookupErr(tx, 1)
         IN IF e # Nil THEN [ok |-> FALSE, err |-> e]
            ELSE [ok |-> Verify(tx), err |-> Nil]

\* A verification loop that goes on after a transaction that is not ok
RECURSIVE MineBlockVerifySkip(_, _)
MineBlockVerifySkip(transactions, i) ==
    IF i > Len(transactions) THEN Nil
    ELSE LET v == VerifyTransaction(transactions[i])
         IN IF v.err # Nil THEN v.err
            ELSE MineBlockVerifySkip(transactions, i + 1)

\* Blockchain.MineBlock, the verification loop: the error it returns
RECURSIVE MineBlockVerify(_, _)
MineBlockVerify(transactions, i) ==
    IF i > Len(transactions) THEN Nil
    ELSE LET v == VerifyTransaction(transactions[i])
         IN IF v.err # Nil THEN v.err
            ELSE IF ~v.ok THEN ErrInvalidTransaction
            ELSE MineBlockVerify(transactions, i + 1)

\* Blockchain.MineBlock, the read transaction: the tip and its height
MineBlockRead == [lastHash |-> l, lastHeight |-> blocks[l].Height]

\* Blockchain.MineBlock, the write transaction
MineBlockWrite(newBlock) ==
    [blocks |-> Put(blocks, newBlock.Hash, newBlock),
     l |-> newBlock.Hash, tip |-> newBlock.Hash]

----------------------------------------------------------------------------
(* What a step reports.  op is "AddBlock" for a call of AddBlock, "mine"   *)
(* for a whole call of MineBlock (the CLI), "verify" and "write" for the   *)
(* verification loop and the write transaction of a call of MineBlock that *)
(* other goroutines interleave with, "other" for anything else.            *)

Other == [op |-> "other", err |-> Nil, block |-> NoBlock, txs |-> <<>>]

Report(op, err, block, txs) ==
    [op |-> op, err |-> err, block |-> block, txs |-> txs]

Idle == [pc |-> "idle", txs |-> <<>>, newBlock |-> NoBlock]

\* The variables of the other specifications, at rest
PwIdle == [pc |-> "idle", digest |-> <<>>, block |-> NoBlock, valid |-> FALSE]
MkIdle == [pc |-> "idle", data |-> <<>>, tree |-> [panic |-> FALSE, RootNode |-> NilNode]]
SgIdle == [pc |-> "idle"]
NetIdle == [node |-> <<>>, msgs |-> {}, sub |-> 0, last |-> <<>>]
UxIdle ==
    [db |-> FALSE, chainstate |-> <<>>, hashes |-> <<>>,
     ret |-> [op |-> "none", err |-> Nil, address |-> <<>>, to |-> <<>>,
              amount |-> 0, balance |-> 0, accumulated |-> 0]]

TxHandlers == {1}

----------------------------------------------------------------------------
(* Spec: one node.  The server process runs handleConnection goroutines    *)
(* over one open store; the CLI uses the store before the server starts.   *)

NodeInit ==
    /\ blocks = Put(<<>>, GenesisHash, NewGenesisBlock)
    /\ l = GenesisHash
    /\ tip = GenesisHash
    /\ utxoTip = GenesisHash
    /\ sha = {ShaEntry(NewGenesisBlock)} \cup {ShaEntry(PeerBlock(k)) : k \in 1..MaxPeerHeight}
    /\ serverUp = FALSE
    /\ mempool = {}
    /\ blocksInTransit = <<>>
    /\ blockMsgs = {}
    /\ th = [h \in TxHandlers |-> Idle]
    /\ nextCb = 0
    /\ ret = Other

Init == NodeInit /\ net = NetIdle /\ ux = UxIdle /\ pw = PwIdle /\ mk = MkIdle /\ sg = SgIdle

\* cli startNode -> server.StartServer: NewBlockchain loads the tip from "l"
StartServer ==
    /\ ~serverUp
    /\ serverUp' = TRUE
    /\ tip' = l
    /\ ret' = Other
    /\ UNCHANGED <<blocks, l, utxoTip, sha, mempool, blocksInTransit, blockMsgs, th, nextCb>>
    /\ UNCHANGED <<pw, mk, sg, ux, net>>

\* What a peer announces: its block hashes tip-to-genesis (the answer to
\* getblocks), or the hash of the block it has just mined.  The peer
\* announces while no `block` message is on its way.
InvItems ==
    {PeerBlockHashes(MaxPeerHeight)} \cup {<<PeerHash(k)>> : k \in 1..MaxPeerHeight}

\* server.handleInv for a "block" inv: getdata for the first item, which the
\* peer answers with a `block` message; the item leaves the transit list.
HandleInv(items) ==
    /\ serverUp
    /\ blockMsgs = {}
    /\ blocksInTransit' = SelectSeq(items, LAMBDA b : b # items[1])
    /\ blockMsgs' = blockMsgs \cup {PeerBlockByHash(items[1])}
    /\ ret' = Other
    /\ UNCHANGED <<blocks, l, tip, utxoTip, sha, serverUp, mempool, th, nextCb>>
    /\ UNCHANGED <<pw, mk, sg, ux, net>>

\* A `block` message whose nonce was altered on the way (one per run)
CorruptBlock(m) ==
    /\ m \in blockMsgs
    /\ \A b \in blockMsgs \cup {blocks[h] : h \in DOMAIN blocks} : Validate(sha, b)
    /\ blockMsgs' = (blockMsgs \ {m}) \cup {[m EXCEPT !.Nonce = m.Nonce + 1]}
    /\ ret' = Other
    /\ UNCHANGED <<blocks, l, tip, utxoTip, sha, serverUp, mempool, blocksInTransit, th, nextCb>>
    /\ UNCHANGED <<pw, mk, sg, ux, net>>

\* server.handleBlock: AddBlock (its error is dropped), then the next block
\* in transit is requested, or the UTXO set is reindexed
HandleBlock(m) ==
    /\ serverUp
    /\ m \in blockMsgs
    /\ LET r == AddBlock(m)
       IN /\ blocks' = r.blocks
          /\ l' = r.l
          /\ tip' = r.tip
          /\ ret' = Report("AddBlock", r.err, m, <<>>)
          /\ IF Len(blocksInTransit) > 0
             THEN /\ blockMsgs' = (blockMsgs \ {m}) \cup {PeerBlockByHash(blocksInTransit[1])}
                  /\ blocksInTransit' = Tail(blocksInTransit)
                  /\ utxoTip' = utxoTip
             ELSE /\ blockMsgs' = blockMsgs \ {m}
                  /\ blocksInTransit' = blocksInTransit
                  /\ utxoTip' = r.tip
    /\ UNCHANGED <<sha, serverUp, mempool, th, nextCb>>
    /\ UNCHANGED <<pw, mk, sg, ux, net>>

SetPc(h, pc) == [th EXCEPT ![h].pc = pc]

\* server.handleTx on a miner that is not the coordinator: the transaction
\* enters the mempool; with two or more in it the mining loop starts (a
\* loop starts only while a block may still be mined within MaxMined)
HandleTx(h, t) ==
    /\ serverUp
    /\ th[h].pc = "idle"
    /\ Cardinality(mempool \cup {t}) >= 2 => nextCb < MaxMined
    /\ mempool' = mempool \cup {t}
    /\ th' = IF Cardinality(mempool') >= 2 THEN SetPc(h, "collect") ELSE th
    /\ ret' = Other
    /\ UNCHANGED <<blocks, l, tip, utxoTip, sha, serverUp, blocksInTransit, blockMsgs, nextCb>>
    /\ UNCHANGED <<pw, mk, sg, ux, net>>

\* handleTx, MineTransactions: verify the mempool, keep the valid
\* transactions, add a coinbase.  A verification error ends the handler.
Collect(h) ==
    /\ th[h].pc = "collect"
    /\ LET valid == {t \in mempool : VerifyTransaction(t).ok}
       IN IF \E t \in mempool : VerifyTransaction(t).err # Nil
          THEN /\ th' = [th EXCEPT ![h] = Idle]
               /\ nextCb' = nextCb
          ELSE IF valid = {}
          THEN /\ th' = [th EXCEPT ![h] = Idle]
               /\ nextCb' = nextCb
          ELSE /\ nextCb < MaxMined
               /\ th' = [th EXCEPT ![h] = [pc |-> "verify",
                            txs |-> SeqOfSet(valid) \o <<NewCoinbaseTX(MaxPeerHeight + 1 + nextCb)>>,
                            newBlock |-> NoBlock]]
               /\ nextCb' = nextCb + 1
    /\ ret' = Other
    /\ UNCHANGED <<blocks, l, tip, utxoTip, sha, serverUp, mempool, blocksInTransit, blockMsgs>>
    /\ UNCHANGED <<pw, mk, sg, ux, net>>

\* MineBlock called by handleTx: the verification loop
MineVerify(h) ==
    /\ th[h].pc = "verify"
    /\ LET e == MineBlockVerify(th[h].txs, 1)
       IN IF e # Nil
          THEN th' = [th EXCEPT ![h] = Idle]
          ELSE th' = SetPc(h, "read")
    /\ ret' = Report("verify", MineBlockVerify(th[h].txs, 1), NoBlock, th[h].txs)
    /\ UNCHANGED <<blocks, l, tip, utxoTip, sha, serverUp, mempool, blocksInTransit, blockMsgs, nextCb>>
    /\ UNCHANGED <<pw, mk, sg, ux, net>>

\* The hash of the block that carries coinbase n: no two blocks share one
MinedHash(txs) == txs[Len(txs)].ID - CoinbaseID(0)

\* MineBlock: the read transaction, then NewBlock with its proof of work
MineRead(h) ==
    /\ th[h].pc = "read"
    /\ \E r \in {MineBlockRead} :
       \E b \in {NewBlock(th[h].txs, r.lastHash, r.lastHeight + 1, nextCb,
                          DigestRow(nextCb % MaxNonce, MinedHash(th[h].txs)))} :
          /\ th' = [th EXCEPT ![h].pc = "write", ![h].newBlock = b]
          /\ sha' = sha \cup {ShaEntry(b)}
    /\ ret' = Other
    /\ UNCHANGED <<blocks, l, tip, utxoTip, serverUp, mempool, blocksInTransit, blockMsgs, nextCb>>
    /\ UNCHANGED <<pw, mk, sg, ux, net>>

\* MineBlock: the write transaction
MineWrite(h) ==
    /\ th[h].pc = "write"
    /\ LET w == MineBlockWrite(th[h].newBlock)
       IN /\ blocks' = w.blocks
          /\ l' = w.l
          /\ tip' = w.tip
    /\ th' = SetPc(h, "finish")
    /\ ret' = Report("write", Nil, th[h].newBlock, th[h].txs)
    /\ UNCHANGED <<utxoTip, sha, serverUp, mempool, blocksInTransit, blockMsgs, nextCb>>
    /\ UNCHANGED <<pw, mk, sg, ux, net>>

\* handleTx after MineBlock: Reindex, drop the mined transactions from the
\* mempool, announce the block, and loop while the mempool is not empty
MineFinish(h) ==
    /\ th[h].pc = "finish"
    /\ utxoTip' = tip
    /\ mempool' = mempool \ Range(th[h].txs)
    /\ th' = [th EXCEPT ![h] = IF mempool' # {} THEN [Idle EXCEPT !.pc = "collect"] ELSE Idle]
    /\ ret' = Other
    /\ UNCHANGED <<blocks, l, tip, sha, serverUp, blocksInTransit, blockMsgs, nextCb>>
    /\ UNCHANGED <<pw, mk, sg, ux, net>>

\* cli send -mine: NewUTXOTransaction builds and signs t (Sign needs every
\* referenced transaction on the chain), then MineBlock({coinbase, t}) and
\* UTXOSet.Update, all in the CLI process
CliSendMine(t) ==
    /\ ~serverUp
    /\ nextCb < MaxMined
    /\ FirstLookupErr(t, 1) = Nil
    /\ nextCb' = nextCb + 1
    /\ LET txs == <<NewCoinbaseTX(MaxPeerHeight + 1 + nextCb), t>>
           e == MineBlockVerify(txs, 1)
       IN IF e # Nil
          THEN /\ ret' = Report("mine", e, NoBlock, txs)
               /\ UNCHANGED <<blocks, l, tip, utxoTip, sha>>
          ELSE LET r == MineBlockRead
                    b == NewBlock(txs, r.lastHash, r.lastHeight + 1, nextCb,
                                  DigestRow(nextCb % MaxNonce, MinedHash(<<t, txs[1]>>)))
                    w == MineBlockWrite(b)
                IN /\ blocks' = w.blocks
                   /\ l' = w.l
                   /\ tip' = w.tip
                   /\ utxoTip' = w.tip
                   /\ sha' = sha \cup {ShaEntry(b)}
                   /\ ret' = Report("mine", Nil, b, txs)
    /\ UNCHANGED <<serverUp, mempool, blocksInTransit, blockMsgs, th>>
    /\ UNCHANGED <<pw, mk, sg, ux, net>>

Next ==
    \/ StartServer
    \/ \E items \in InvItems : HandleInv(items)
    \/ \E m \in blockMsgs : CorruptBlock(m)
    \/ \E m \in blockMsgs : HandleBlock(m)
    \/ \E h \in TxHandlers, t \in UserTxs : HandleTx(h, t)
    \/ \E h \in TxHandlers : Collect(h)
    \/ \E h \in TxHandlers : MineVerify(h)
    \/ \E h \in TxHandlers : MineRead(h)
    \/ \E h \in TxHandlers : MineWrite(h)
    \/ \E h \in TxHandlers : MineFinish(h)
    \/ \E t \in UserTxs : CliSendMine(t)

Spec == Init /\ [][Next]_vars

\* SpecMine: Spec with the handler's goroutine scheduled.  handleConnection
\* runs in a goroutine of its own (server.go:58) and the mining loop takes no
\* lock and waits for nothing but the store's own transactions, so a step of
\* the loop that can be taken is taken.
MineStep ==
    \E h \in TxHandlers : Collect(h) \/ MineVerify(h) \/ MineRead(h) \/ MineWrite(h) \/ MineFinish(h)

SpecMine == Spec /\ WF_vars(MineStep)

----------------------------------------------------------------------------
(* The chain as the claims speak of it, by sets rather than by the walk *)

\* The hashes met walking from h along PrevBlockHash while blocks are stored
RECURSIVE Walk(_, _)
Walk(h, seen) ==
    IF h \notin DOMAIN blocks \/ h \in seen THEN seen
    ELSE Walk(blocks[h].PrevBlockHash, seen \cup {h})

\* The walk from h ends at a block with an empty PrevBlockHash
ReachesGenesis(h) ==
    \E g \in Walk(h, {}) : blocks[g].PrevBlockHash = EmptyHash

TxIDs(b) == {b.Transactions[i].ID : i \in DOMAIN b.Transactions}

OnChain(ID) == \E h \in Walk(tip, {}) : ID \in TxIDs(blocks[h])

\* What looking up ID from the tip must give
LookupOutcome(ID) ==
    IF OnChain(ID) THEN Nil
    ELSE IF ReachesGenesis(tip) THEN ErrTransactionNotFound
    ELSE ErrDecode

\* What verifying tx must give: the first failed lookup, else the signatures
VerifyOutcome(tx) ==
    IF IsCoinbase(tx) THEN Nil
    ELSE IF \E i \in DOMAIN tx.Vin : LookupOutcome(tx.Vin[i].Txid) # Nil
    THEN LET i == CHOOSE j \in DOMAIN tx.Vin :
                    /\ LookupOutcome(tx.Vin[j].Txid) # Nil
                    /\ \A k \in 1..(j - 1) : LookupOutcome(tx.Vin[k].Txid) = Nil
         IN LookupOutcome(tx.Vin[i].Txid)
    ELSE IF \E i \in DOMAIN tx.Vin : tx.Vin[i].Signature # "good"
    THEN ErrInvalidTransaction
    ELSE Nil

SomeTxFails(txs) == \E i \in DOMAIN txs : VerifyOutcome(txs[i]) # Nil

FirstFailure(txs) ==
    LET i == CHOOSE j \in DOMAIN txs :
                /\ VerifyOutcome(txs[j]) # Nil
                /\ \A k \in 1..(j - 1) : VerifyOutcome(txs[k]) = Nil
    IN VerifyOutcome(txs[i])

StoreUnchanged == blocks' = blocks /\ l' = l /\ tip' = tip

----------------------------------------------------------------------------
(* Claims on Spec *)

\* C1: in every reachable state the block named by the tip key "l" has the
\* maximum height among the stored blocks whose chain reaches genesis.
C1_TipHasMaxHeight ==
    \A h \in DOMAIN blocks :
        ReachesGenesis(h) => blocks[h].Height <= blocks[l].Height

\* C2: in every reachable state every non-genesis block reachable from the
\* tip has its predecessor in the store, one height below it.
C2_PredecessorsStored ==
    \A h \in Walk(l, {}) :
        blocks[h].PrevBlockHash # EmptyHash =>
            /\ blocks[h].PrevBlockHash \in DOMAIN blocks
            /\ blocks[blocks[h].PrevBlockHash].Height = blocks[h].Height - 1

\* C3: a successful AddBlock(b) stores b, and sets the persisted tip and the
\* in-memory tip to b.Hash if b.Height is strictly greater than the height of
\* the tip before the call; otherwise it leaves both tips as they were.
C3_AddBlockTipRule ==
    [][(ret'.op = "AddBlock" /\ ret'.err = Nil) =>
        /\ ret'.block.Hash \notin DOMAIN blocks
        /\ blocks' = Put(blocks, ret'.block.Hash, ret'.block)
        /\ IF ret'.block.Height > blocks[l].Height
           THEN l' = ret'.block.Hash /\ tip' = ret'.block.Hash
           ELSE l' = l /\ tip' = tip]_vars

\* C3 witness: a block of the tip's height was stored and is not the tip
C3_Witness ==
    /\ ret.op = "AddBlock" /\ ret.err = Nil
    /\ ret.block.Hash \in DOMAIN blocks
    /\ ret.block.Height = blocks[l].Height
    /\ l # ret.block.Hash

\* C4: AddBlock(b) for a hash that is already a key of the bucket returns
\* block-exists and leaves the bucket, "l" and the in-memory tip as they were.
C4_AddBlockExists ==
    [][(ret'.op = "AddBlock" /\ ret'.block.Hash \in DOMAIN blocks) =>
        /\ ret'.err = ErrBlockExists
        /\ StoreUnchanged]_vars

\* C4 witness: block-exists for a block that differs from the stored one
C4_Witness ==
    /\ ret.op = "AddBlock" /\ ret.err = ErrBlockExists
    /\ blocks[ret.block.Hash] # ret.block

\* C5: every successful MineBlock builds a block on the current tip, one
\* higher than it, and installs it as the new tip, so the new tip is strictly
\* higher than the tip it replaces.
C5_MineBlockExtendsTip ==
    [][(ret'.op \in {"mine", "write"} /\ ret'.err = Nil) =>
        /\ ret'.block.PrevBlockHash = l
        /\ ret'.block.Height = blocks[l].Height + 1
        /\ l' = ret'.block.Hash /\ tip' = ret'.block.Hash
        /\ blocks'[l'].Height > blocks[l].Height]_vars

C7_StoredBlocksValid ==
    \A h \in DOMAIN blocks :
        /\ PowDigest(sha, prepareData(blocks[h], blocks[h].Nonce)) = blocks[h].Hash
        /\ blocks[h].Hash < Target

----------------------------------------------------------------------------
(* SpecPoW: the proof of work of one block.  A header is drawn together    *)
(* with the digest of its PoW data at every nonce; NewBlock runs the       *)
(* search on it and Validate checks the block it built.  Some nonce below  *)
(* maxNonce meets the target: with 2^63 nonces and a target of 2^-24 a     *)
(* header without one does not occur.                                      *)

\* Timestamps of the headers drawn.
MaxTimestamp == 1

\* Digests around the target and at both ends of the range
DigestSamples == {0, Target - 1, Target, Target + 1, MaxDigest}

PowHeader(timestamp) ==
    [NoBlock EXCEPT !.Timestamp = timestamp,
                    !.Transactions = <<NewCoinbaseTX(1)>>,
                    !.PrevBlockHash = GenesisHash,
                    !.Height = 1]

\* sha256.Sum256 over the PoW data of header b, by the digests drawn for it
PowKnown(b, digest) ==
    {[data |-> prepareData(b, n), sum |-> digest[n]] : n \in DOMAIN digest}

PowInit ==
    /\ pw \in {[pc |-> "header", digest |-> d, block |-> PowHeader(t), valid |-> FALSE] :
                 d \in {r \in [0..(MaxNonce - 1) -> DigestSamples] :
                            \E n \in DOMAIN r : r[n] < Target},
                 t \in 0..MaxTimestamp}
    /\ NodeInit /\ net = NetIdle /\ ux = UxIdle /\ mk = MkIdle /\ sg = SgIdle

\* block.NewBlock on the header
PowNewBlock ==
    /\ pw.pc = "header"
    /\ pw' = [pw EXCEPT !.pc = "built",
                        !.block = NewBlock(pw.block.Transactions, pw.block.PrevBlockHash,
                                           pw.block.Height, pw.block.Timestamp, pw.digest)]
    /\ UNCHANGED <<nodeVars, mk, sg, ux, net>>

\* NewProofOfWork(block).Validate()
PowValidate ==
    /\ pw.pc = "built"
    /\ pw' = [pw EXCEPT !.pc = "validated",
                        !.valid = Validate(PowKnown(pw.block, pw.digest), pw.block)]
    /\ UNCHANGED <<nodeVars, mk, sg, ux, net>>

PowNext == PowNewBlock \/ PowValidate

SpecPoW == PowInit /\ [][PowNext]_vars

\* C8: the nonce of a block NewBlock built is the first nonce, counting from
\* 0, whose digest is strictly below the target; the block's hash is the
\* digest at that nonce; and Validate is true for the block.
C8_RunFirstNonce ==
    pw.pc \in {"built", "validated"} =>
        LET n == pw.block.Nonce
        IN /\ n \in DOMAIN pw.digest
           /\ pw.digest[n] < Target
           /\ \A k \in 0..(n - 1) : pw.digest[k] >= Target
           /\ pw.block.Hash = pw.digest[n]
           /\ pw.block.Hash =
                  PowDigest(PowKnown(pw.block, pw.digest), prepareData(pw.block, n))
           /\ Validate(PowKnown(pw.block, pw.digest), pw.block)
           /\ (pw.pc = "validated" => pw.valid)

\* C8 witness: a validated block found after a digest equal to the target
\* was passed over, with a later nonce that would also have qualified
C8_Witness ==
    /\ pw.pc = "validated" /\ pw.valid
    /\ pw.block.Nonce > 0
    /\ pw.digest[pw.block.Nonce - 1] = Target
    /\ \E k \in DOMAIN pw.digest : k > pw.block.Nonce /\ pw.digest[k] < Target

----------------------------------------------------------------------------
(* SpecMerkle: NewMerkleTree over a list of transaction ids *)

\* Transactions of a block.
MaxTxs == 8

\* Transaction ids, as byte strings
MerkleIDs == {<<1>>, <<2>>}

MerkleInit ==
    /\ mk \in {[MkIdle EXCEPT !.pc = "data", !.data = d] :
                 d \in UNION {[1..n -> MerkleIDs] : n \in 1..MaxTxs}}
    /\ NodeInit /\ net = NetIdle /\ ux = UxIdle /\ pw = PwIdle /\ sg = SgIdle

\* Block.HashTransactions: NewMerkleTree(txHashes)
MerkleBuild ==
    /\ mk.pc = "data"
    /\ mk' = [mk EXCEPT !.pc = "built", !.tree = NewMerkleTree(mk.data)]
    /\ UNCHANGED <<nodeVars, pw, sg, ux, net>>

MerkleNext == MerkleBuild

SpecMerkle == MerkleInit /\ [][MerkleNext]_vars

\* The tree as described: leaves are the hashes of the entries, the last
\* entry taken twice when their number is odd; a level is the hashes of
\* left || right of the pairs of the level below.
RECURSIVE PairUp(_)
PairUp(nodes) ==
    IF Len(nodes) < 2 THEN <<>>
    ELSE <<Sha256(nodes[1] \o nodes[2])>> \o PairUp(SubSeq(nodes, 3, Len(nodes)))

\* C9: for every non-empty list of transaction ids, of any length,
\* NewMerkleTree returns a single root node, which hashes the pairs of the
\* level below it.
C9_MerkleSingleRoot ==
    mk.pc = "built" =>
        /\ ~mk.tree.panic
        /\ mk.tree.RootNode # NilNode
        /\ Len(mk.data) <= 2 =>
              mk.tree.RootNode =
                  PairUp(<<Sha256(mk.data[1]), Sha256(mk.data[Len(mk.data)])>>)[1]

----------------------------------------------------------------------------
(* SpecSig: Sign, then Verify, of a transaction with one input.  A key     *)
(* pair is drawn, Sign draws the pair (r, s) the signer produces, and      *)
(* Verify recovers the four integers from the stored bytes.                *)

\* Bytes of a coordinate of the curve (32 for P-256).
FieldBytes == 2

ByteBase == 256

\* Integers of full width, and integers whose leading byte is zero
BigSamples ==
    {1, ByteBase ^ (FieldBytes - 1) - 1, ByteBase ^ (FieldBytes - 1),
     ByteBase ^ FieldBytes - 1}

\* big.Int.Bytes: big-endian, without leading zero bytes
RECURSIVE Bytes(_)
Bytes(n) == IF n = 0 THEN <<>> ELSE Bytes(n \div ByteBase) \o <<n % ByteBase>>

\* big.Int.SetBytes: the big-endian value of a byte string
RECURSIVE SetBytes(_)
SetBytes(b) ==
    IF Len(b) = 0 THEN 0
    ELSE SetBytes(SubSeq(b, 1, Len(b) - 1)) * ByteBase + b[Len(b)]

\* newKeyPair: pubKey = append(X.Bytes(), Y.Bytes()...)
newKeyPair(X, Y) == [X |-> X, Y |-> Y, pubKey |-> Bytes(X) \o Bytes(Y)]

\* Transaction.TrimmedCopy: no signature, no public key
TrimmedCopy(tx) ==
    [tx EXCEPT !.Vin = [i \in DOMAIN tx.Vin |->
                            [tx.Vin[i] EXCEPT !.Signature = <<>>, !.PublicKey = <<>>]]]

\* Public key hashes of the owners of outputs, as byte strings
SigOwner == <<65>>
SigPayee == <<66>>
SigOther == <<67>>

\* The transactions on the chain that an input may reference, by id: a
\* coinbase with one output, and a payment with two outputs to the same owner
SigPrevTXs ==
    (CoinbaseID(0) :> [ID |-> CoinbaseID(0), Vout |-> <<[Value |-> subsidy, PublicKeyHash |-> SigOwner]>>])
    @@ (300 :> [ID |-> 300, Vout |-> <<[Value |-> 5, PublicKeyHash |-> SigOwner],
                                      [Value |-> 5, PublicKeyHash |-> SigOwner]>>])

\* %x of a byte string: two digits a byte
RECURSIVE HexBytes(_)
HexBytes(b) ==
    IF Len(b) = 0 THEN <<>>
    ELSE <<b[1] \div 16, b[1] % 16>> \o HexBytes(Tail(b))

\* %x of an id, which is a byte string the model keeps as a number
HexOf(h) == IF h = EmptyHash THEN <<>> ELSE HexDigits(h)

RECURSIVE SprintfInputs(_)
SprintfInputs(vin) ==
    IF Len(vin) = 0 THEN <<>>
    ELSE <<-10>> \o HexOf(vin[1].Txid) \o <<-14>> \o IntToHex(vin[1].Vout) \o <<-14>>
         \o HexBytes(vin[1].Signature) \o <<-14>> \o HexBytes(vin[1].PublicKey) \o <<-11>>
         \o (IF Len(vin) > 1 THEN <<-14>> ELSE <<>>) \o SprintfInputs(Tail(vin))

RECURSIVE SprintfOutputs(_)
SprintfOutputs(vout) ==
    IF Len(vout) = 0 THEN <<>>
    ELSE <<-10>> \o IntToHex(vout[1].Value) \o <<-14>> \o HexBytes(vout[1].PublicKeyHash) \o <<-11>>
         \o (IF Len(vout) > 1 THEN <<-14>> ELSE <<>>) \o SprintfOutputs(Tail(vout))

\* fmt.Sprintf("%x\n", txCopy) on the struct: {ID [{Txid Vout Signature
\* PublicKey} ...] [{Value PublicKeyHash} ...]}, every field in hex.  Hex
\* digits are kept as 0..15, "{" "}" "[" "]" " " as -10 -11 -12 -13 -14.
Sprintfx(txCopy) ==
    <<-10>> \o HexOf(txCopy.ID) \o <<-14, -12>> \o SprintfInputs(txCopy.Vin)
    \o <<-13, -14, -12>> \o SprintfOutputs(txCopy.Vout) \o <<-13, -11>>

\* prevTXs[hex(vin.Txid)].Vout[vin.Vout]: a missing key gives the zero
\* Transaction, and an index outside Vout panics
PrevOutPanics(vin, prevTXs) ==
    \/ vin.Txid \notin DOMAIN prevTXs
    \/ vin.Vout + 1 \notin DOMAIN prevTXs[vin.Txid].Vout

\* The data signed for input inID: the trimmed copy, with the input's
\* PublicKey set to the PublicKeyHash of the output it references
dataToSign(tx, inID, prevTXs) ==
    LET txCopy == TrimmedCopy(tx)
        prevTx == prevTXs[tx.Vin[inID].Txid]
    IN Sprintfx([txCopy EXCEPT !.Vin[inID].PublicKey =
                                  prevTx.Vout[tx.Vin[inID].Vout + 1].PublicKeyHash])

\* Transaction.Sign: nothing for a coinbase; else rs[inID] is the pair
\* ecdsa.Sign returns for the input; signature = append(r.Bytes(), s.Bytes()...)
Sign(tx, rs) ==
    IF IsCoinbase(tx) THEN tx
    ELSE [tx EXCEPT !.Vin = [i \in DOMAIN tx.Vin |->
                            [tx.Vin[i] EXCEPT !.Signature = Bytes(rs[i].r) \o Bytes(rs[i].s)]]]

\* ecdsa.Verify: true for the pair the owner of (X, Y) produced on this data
ecdsaVerify(x, y, data, r, s, key, signed) ==
    /\ x = key.X /\ y = key.Y
    /\ \E i \in DOMAIN signed :
           signed[i].data = data /\ signed[i].r = r /\ signed[i].s = s

\* Transaction.Verify, one input: both byte strings are split at half their length
VerifyInput(tx, inID, prevTXs, key, signed) ==
    LET vin == tx.Vin[inID]
        sigLen == Len(vin.Signature)
        keyLen == Len(vin.PublicKey)
        r == SetBytes(SubSeq(vin.Signature, 1, sigLen \div 2))
        s == SetBytes(SubSeq(vin.Signature, sigLen \div 2 + 1, sigLen))
        x == SetBytes(SubSeq(vin.PublicKey, 1, keyLen \div 2))
        y == SetBytes(SubSeq(vin.PublicKey, keyLen \div 2 + 1, keyLen))
    IN ecdsaVerify(x, y, dataToSign(tx, inID, prevTXs), r, s, key, signed)

\* Transaction.Verify: the inputs in order; it has no case for a coinbase
RECURSIVE VerifyFrom(_, _, _, _, _)
VerifyFrom(tx, inID, prevTXs, key, signed) ==
    IF inID > Len(tx.Vin) THEN [panic |-> FALSE, ok |-> TRUE]
    ELSE IF PrevOutPanics(tx.Vin[inID], prevTXs) THEN [panic |-> TRUE, ok |-> FALSE]
    ELSE IF ~VerifyInput(tx, inID, prevTXs, key, signed) THEN [panic |-> FALSE, ok |-> FALSE]
    ELSE VerifyFrom(tx, inID + 1, prevTXs, key, signed)

VerifyTx(tx, prevTXs, key, signed) == VerifyFrom(tx, 1, prevTXs, key, signed)

\* Transaction.Serialize: gob of ID, Vin, Vout, field by field; an empty
\* slice and a nil slice encode alike
Serialize(tx) ==
    <<tx.ID,
      [i \in DOMAIN tx.Vin |-> <<tx.Vin[i].Txid, tx.Vin[i].Vout,
                                 tx.Vin[i].Signature, tx.Vin[i].PublicKey>>],
      [i \in DOMAIN tx.Vout |-> <<tx.Vout[i].Value, tx.Vout[i].PublicKeyHash>>]>>

\* DeserializeTransaction
DeserializeTransaction(data) ==
    [ID |-> data[1],
     Vin |-> [i \in DOMAIN data[2] |->
                [Txid |-> data[2][i][1], Vout |-> data[2][i][2],
                 Signature |-> data[2][i][3], PublicKey |-> data[2][i][4]]],
     Vout |-> [i \in DOMAIN data[3] |->
                [Value |-> data[3][i][1], PublicKeyHash |-> data[3][i][2]]]]

\* NewUTXOTransaction before tx.ID is set: one input spending an output of
\* the key's owner, a payment and a change
SigTxBody(key) ==
    [ID |-> EmptyHash,
     Vin |-> <<[Txid |-> 300, Vout |-> 0, Signature |-> <<>>,
                PublicKey |-> key.pubKey]>>,
     Vout |-> <<[Value |-> 4, PublicKeyHash |-> SigPayee],
                [Value |-> 1, PublicKeyHash |-> SigOwner]>>]

\* NewCoinbaseTX before tx.ID is set: TXInput{[]byte{}, -1, nil, data}
SigCoinbaseBody ==
    [ID |-> EmptyHash,
     Vin |-> <<[Txid |-> EmptyHash, Vout |-> -1, Signature |-> <<>>, PublicKey |-> <<1>>]>>,
     Vout |-> <<[Value |-> subsidy, PublicKeyHash |-> SigOwner]>>]

\* sha256.Sum256 over the encodings of transactions: the digests of the two
\* bodies above; any other encoding has another digest
OtherDigest == 999

TxDigests ==
    {[data |-> Serialize(SigTxBody(newKeyPair(X, Y))), sum |-> 301] :
        X \in BigSamples, Y \in BigSamples}
    \cup {[data |-> Serialize(SigCoinbaseBody), sum |-> CoinbaseID(1)]}

\* Transaction.Hash: txCopy.ID = []byte{}, sha256.Sum256(txCopy.Serialize())
Hash(tx) ==
    LET sl == Serialize([tx EXCEPT !.ID = EmptyHash])
    IN IF \E e \in TxDigests : e.data = sl
       THEN (CHOOSE e \in TxDigests : e.data = sl).sum
       ELSE OtherDigest

\* NewUTXOTransaction: tx.ID, err = tx.Hash(), before SignTransaction
SigTx(key) == [SigTxBody(key) EXCEPT !.ID = Hash(SigTxBody(key))]

\* NewCoinbaseTX: tx.ID, err = tx.Hash()
SigCoinbaseTX == [SigCoinbaseBody EXCEPT !.ID = Hash(SigCoinbaseBody)]

SigStart(key, t) ==
    [pc |-> "key", key |-> key, tx |-> t, orig |-> t, signed |-> <<>>,
     tampered |-> FALSE, ok |-> FALSE, panic |-> FALSE]

SigInit ==
    /\ sg \in UNION {{SigStart(newKeyPair(X, Y), t) :
                          t \in {SigTx(newKeyPair(X, Y)), SigCoinbaseTX}} :
                      X \in BigSamples, Y \in BigSamples}
    /\ NodeInit /\ net = NetIdle /\ ux = UxIdle /\ pw = PwIdle /\ mk = MkIdle

\* SignTransaction: Sign with the pair (r, s) that ecdsa.Sign returns
SigSign(r, s) ==
    /\ sg.pc = "key"
    /\ LET signedTx == Sign(sg.tx, <<[r |-> r, s |-> s]>>)
       IN sg' = [sg EXCEPT !.pc = "signed", !.tx = signedTx, !.orig = signedTx,
                           !.signed = IF IsCoinbase(sg.tx) THEN <<>>
                                      ELSE <<[data |-> dataToSign(sg.tx, 1, SigPrevTXs),
                                              r |-> r, s |-> s]>>]
    /\ UNCHANGED <<nodeVars, pw, mk, ux, net>>

\* The signed transaction as someone else may change it before it is
\* verified: an output's value or recipient, an input's Txid or Vout
SigTampered(tx) ==
    {[tx EXCEPT !.Vout[i].Value = @ + 1] : i \in DOMAIN tx.Vout}
    \cup {[tx EXCEPT !.Vout[i].PublicKeyHash = SigOther] : i \in DOMAIN tx.Vout}
    \cup {[tx EXCEPT !.Vin[1].Txid = t] : t \in DOMAIN SigPrevTXs \ {tx.Vin[1].Txid}}
    \cup {[tx EXCEPT !.Vin[1].Vout = v] : v \in (-1..2) \ {tx.Vin[1].Vout}}

SigTamper(t) ==
    /\ sg.pc = "signed" /\ ~sg.tampered /\ ~IsCoinbase(sg.tx)
    /\ sg' = [sg EXCEPT !.tx = t, !.tampered = TRUE]
    /\ UNCHANGED <<nodeVars, pw, mk, ux, net>>

SigVerify ==
    /\ sg.pc = "signed"
    /\ LET v == VerifyTx(sg.tx, SigPrevTXs, sg.key, sg.signed)
       IN sg' = [sg EXCEPT !.pc = "verified", !.ok = v.ok, !.panic = v.panic]
    /\ UNCHANGED <<nodeVars, pw, mk, ux, net>>

SigNext ==
    \/ \E r \in BigSamples, s \in BigSamples : SigSign(r, s)
    \/ \E t \in SigTampered(sg.tx) : SigTamper(t)
    \/ SigVerify

SpecSig == SigInit /\ [][SigNext]_vars

\* C10: a transaction whose input was signed by Sign with the key of the
\* owner of the referenced output verifies, whatever pair (r, s) the signer
\* produced and whatever public key (X, Y) was generated.
C10_SignedVerifies ==
    (sg.pc = "verified" /\ ~sg.tampered /\ ~IsCoinbase(sg.tx)) => sg.ok

\* C11: a signed transaction that verifies no longer does once an output's
\* value, an output's recipient hash or an input's reference (Txid or Vout)
\* is changed and the signatures are kept: Verify returns false.
C11_TamperedRejected ==
    (/\ sg.pc = "verified" /\ sg.tampered
     /\ VerifyTx(sg.orig, SigPrevTXs, sg.key, sg.signed).ok)
        => (~sg.ok /\ ~sg.panic)

\* C12: Verify returns true for a coinbase transaction, with no entry of
\* prevTXs needed, and Sign leaves a coinbase transaction as it is.
C12_CoinbaseVerifies ==
    /\ (sg.pc = "verified" /\ IsCoinbase(sg.tx)) => (sg.ok /\ ~sg.panic)
    /\ (sg.pc = "signed" /\ IsCoinbase(sg.tx)) => sg.tx = SigCoinbaseTX

\* C13: every transaction the system creates has an id equal to the hash of
\* its encoding with the id cleared, also after a round trip through
\* Serialize and DeserializeTransaction.
C13_IdIsHash ==
    (sg.pc \in {"signed", "verified"} /\ ~sg.tampered) =>
        Hash(DeserializeTransaction(Serialize(sg.tx))) = sg.tx.ID

----------------------------------------------------------------------------
(* SpecUTXO: the CLI on one chain file.  createblockchain, send -mine,     *)
(* reindexutxo and getbalance run one after the other (bolt's file lock    *)
(* keeps a second process out), over the blocks bucket and the chainstate  *)
(* bucket.  An address stands for its public key hash.                     *)

\* Largest number of blocks the CLI puts on the chain
MaxBlocks == 4

Addresses == {SigOwner, SigPayee, SigOther}
SendAmounts == {4, 16}

ErrDBExists == "database already exists"
ErrDBDoesNotExist == "database does not exist"
ErrNotEnoughFunds == "not enough funds"

\* transaction.NewTXOutput: the value, locked to the address
NewTXOutput(value, address) == [Value |-> value, PublicKeyHash |-> address]

\* TXOutput.IsLockedWithKey
IsLockedWithKey(out, pubKeyHash) == out.PublicKeyHash = pubKeyHash

\* NewCoinbaseTX(to, data): the coinbase made for block n, its output locked
\* to `to`; the random data gives every coinbase an id of its own
CoinbaseTo(to, n) == [NewCoinbaseTX(n) EXCEPT !.Vout = <<NewTXOutput(subsidy, to)>>]

\* The sum of the values of a list of outputs
RECURSIVE SumValues(_)
SumValues(outs) ==
    IF outs = <<>> THEN 0 ELSE outs[1].Value + SumValues(Tail(outs))

\* The keys of a bucket in cursor order
RECURSIVE KeysInOrder(_)
KeysInOrder(K) ==
    IF K = {} THEN <<>>
    ELSE LET k == CHOOSE x \in K : \A y \in K : x <= y
         IN <<k>> \o KeysInOrder(K \ {k})

\* BlockchainIterator.Next repeated from hash h until the block with an empty
\* PrevBlockHash has been yielded: the blocks in the order they are yielded
RECURSIVE IterateFrom(_, _)
IterateFrom(h, fuel) ==
    IF h \notin DOMAIN blocks \/ fuel = 0 THEN <<>>
    ELSE LET b == blocks[h]
         IN IF b.PrevBlockHash = EmptyHash THEN <<b>>
            ELSE <<b>> \o IterateFrom(b.PrevBlockHash, fuel - 1)

\* Blockchain.Iterator: starts at bc.tip
Iterate == IterateFrom(tip, Cardinality(DOMAIN blocks))

\* Blockchain.FindUTXO, the Outputs loop: the outputs of vout from position i
\* on whose index is not in spent, appended one after the other
RECURSIVE UnspentFrom(_, _, _)
UnspentFrom(vout, i, spent) ==
    IF i > Len(vout) THEN <<>>
    ELSE (IF (i - 1) \in spent THEN <<>> ELSE <<vout[i]>>)
             \o UnspentFrom(vout, i + 1, spent)

\* The same loop when the spent-output map is not consulted
FindUTXOTxKeepSpent(acc, tx) ==
    [UTXOs |-> Put(acc.UTXOs, tx.ID, tx.Vout), spentTXO |-> acc.spentTXO]

\* Blockchain.FindUTXO, the body for one transaction: append its outputs that
\* are not in spentTXO to UTXOs[txID], then record its inputs in spentTXO
FindUTXOTx(acc, tx) ==
    LET spent == IF tx.ID \in DOMAIN acc.spentTXO THEN acc.spentTXO[tx.ID] ELSE {}
        kept == UnspentFrom(tx.Vout, 1, spent)
        old == IF tx.ID \in DOMAIN acc.UTXOs THEN acc.UTXOs[tx.ID] ELSE <<>>
        UTXOs == IF kept = <<>> THEN acc.UTXOs ELSE Put(acc.UTXOs, tx.ID, old \o kept)
        refs == IF IsCoinbase(tx) THEN {} ELSE {tx.Vin[i].Txid : i \in DOMAIN tx.Vin}
        spentTXO ==
            [t \in DOMAIN acc.spentTXO \cup refs |->
                (IF t \in DOMAIN acc.spentTXO THEN acc.spentTXO[t] ELSE {})
                \cup {tx.Vin[i].Vout : i \in {j \in DOMAIN tx.Vin : tx.Vin[j].Txid = t /\ t \in refs}}]
    IN [UTXOs |-> UTXOs, spentTXO |-> spentTXO]

RECURSIVE FindUTXOTxs(_, _, _)
FindUTXOTxs(acc, txs, i) ==
    IF i > Len(txs) THEN acc ELSE FindUTXOTxs(FindUTXOTx(acc, txs[i]), txs, i + 1)

RECURSIVE FindUTXOBlocks(_, _, _)
FindUTXOBlocks(acc, bs, i) ==
    IF i > Len(bs) THEN acc
    ELSE FindUTXOBlocks(FindUTXOTxs(acc, bs[i].Transactions, 1), bs, i + 1)

\* Blockchain.FindUTXO: the walk from the tip to the genesis block
FindUTXO == FindUTXOBlocks([UTXOs |-> <<>>, spentTXO |-> <<>>], Iterate, 1).UTXOs

\* Removing a key from a bucket
Delete(bucket, key) == [k \in DOMAIN bucket \ {key} |-> bucket[k]]

\* UTXOSet.Reindex: the bucket is dropped, recreated and filled with the
\* entries of Blockchain.FindUTXO
Reindex == FindUTXO

\* UTXOSet.Update, one input: the referenced entry without the output at the
\* input's index; the key is deleted when nothing is left
UpdateInput(bucket, vin) ==
    IF vin.Txid \notin DOMAIN bucket THEN bucket
    ELSE LET updatedOuts == UnspentFrom(bucket[vin.Txid], 1, {vin.Vout})
         IN IF updatedOuts = <<>> THEN Delete(bucket, vin.Txid)
            ELSE Put(bucket, vin.Txid, updatedOuts)

RECURSIVE UpdateInputs(_, _, _)
UpdateInputs(bucket, vin, i) ==
    IF i > Len(vin) THEN bucket
    ELSE UpdateInputs(UpdateInput(bucket, vin[i]), vin, i + 1)

\* UTXOSet.Update, the inputs of the transactions from position i on
RECURSIVE UpdateSpend(_, _, _)
UpdateSpend(bucket, txs, i) ==
    IF i > Len(txs) THEN bucket
    ELSE UpdateSpend(IF IsCoinbase(txs[i]) THEN bucket
                     ELSE UpdateInputs(bucket, txs[i].Vin, 1), txs, i + 1)

\* UTXOSet.Update, the fresh entries of the transactions from position i on
RECURSIVE UpdateAdd(_, _, _)
UpdateAdd(bucket, txs, i) ==
    IF i > Len(txs) THEN bucket
    ELSE UpdateAdd(Put(bucket, txs[i].ID, txs[i].Vout), txs, i + 1)

\* UTXOSet.Update(block)
Update(bucket, block) ==
    UpdateAdd(UpdateSpend(bucket, block.Transactions, 1), block.Transactions, 1)

\* UTXOSet.FindSpendableOutputs, one entry: the outputs from position i on
\* that are locked to pubKeyHash, taken while accumulated < amount
RECURSIVE SpendableIn(_, _, _, _, _)
SpendableIn(outs, i, pubKeyHash, amount, st) ==
    IF i > Len(outs) THEN st
    ELSE SpendableIn(outs, i + 1, pubKeyHash, amount,
            IF IsLockedWithKey(outs[i], pubKeyHash) /\ st.accumulated < amount
            THEN [accumulated |-> st.accumulated + outs[i].Value,
                  outs |-> Append(st.outs, i - 1)]
            ELSE st)

RECURSIVE SpendableFrom(_, _, _, _, _, _)
SpendableFrom(bucket, keys, j, pubKeyHash, amount, st) ==
    IF j > Len(keys) THEN st
    ELSE LET r == SpendableIn(bucket[keys[j]], 1, pubKeyHash, amount,
                              [accumulated |-> st.accumulated, outs |-> <<>>])
         IN SpendableFrom(bucket, keys, j + 1, pubKeyHash, amount,
                [accumulated |-> r.accumulated,
                 unspentOutputs |-> IF r.outs = <<>> THEN st.unspentOutputs
                                    ELSE Put(st.unspentOutputs, keys[j], r.outs)])

\* UTXOSet.FindSpendableOutputs(pubKeyHash, amount)
FindSpendableOutputs(bucket, pubKeyHash, amount) ==
    SpendableFrom(bucket, KeysInOrder(DOMAIN bucket), 1, pubKeyHash, amount,
                  [accumulated |-> 0, unspentOutputs |-> <<>>])

\* UTXOSet.FindUTXO(pubKeyHash): the outputs of the bucket locked to the hash
RECURSIVE LockedFrom(_, _, _, _)
LockedFrom(bucket, keys, j, pubKeyHash) ==
    IF j > Len(keys) THEN <<>>
    ELSE SelectSeq(bucket[keys[j]], LAMBDA out : IsLockedWithKey(out, pubKeyHash))
             \o LockedFrom(bucket, keys, j + 1, pubKeyHash)

UTXOSetFindUTXO(bucket, pubKeyHash) ==
    LockedFrom(bucket, KeysInOrder(DOMAIN bucket), 1, pubKeyHash)

\* Transaction.Hash: hashes holds the encodings of the transactions on the
\* chain, and the sum of the k-th of them is 400 + k
HashIn(hashes, body) ==
    IF \E k \in DOMAIN hashes : hashes[k] = body
    THEN 400 + (CHOOSE k \in DOMAIN hashes : hashes[k] = body)
    ELSE 400 + Len(hashes) + 1

\* NewUTXOTransaction, the list of inputs: one per selected output
RECURSIVE InputsFrom(_, _, _, _)
InputsFrom(validOutputs, keys, j, pubKey) ==
    IF j > Len(keys) THEN <<>>
    ELSE [i \in DOMAIN validOutputs[keys[j]] |->
            [Txid |-> keys[j], Vout |-> validOutputs[keys[j]][i],
             Signature |-> "none", PublicKey |-> pubKey]]
         \o InputsFrom(validOutputs, keys, j + 1, pubKey)

\* A construction that also refuses a request for exactly what is there
NewUTXOTransactionStrict(bucket, hashes, from, to, amount, sig) ==
    LET r == FindSpendableOutputs(bucket, from, amount)
        inputs == InputsFrom(r.unspentOutputs, KeysInOrder(DOMAIN r.unspentOutputs), 1, from)
        outputs == <<NewTXOutput(amount, to)>> \o
                   (IF r.accumulated > amount
                    THEN <<NewTXOutput(r.accumulated - amount, from)>> ELSE <<>>)
        body == [ID |-> EmptyHash, Vin |-> inputs, Vout |-> outputs]
    IN IF r.accumulated <= amount
       THEN [err |-> ErrNotEnoughFunds, accumulated |-> r.accumulated]
       ELSE [err |-> Nil, accumulated |-> r.accumulated, body |-> body,
             tx |-> [ID |-> HashIn(hashes, body),
                     Vin |-> [i \in DOMAIN inputs |-> [inputs[i] EXCEPT !.Signature = sig]],
                     Vout |-> outputs]]

\* NewUTXOTransaction(wallet, to, amount, UTXOSet): select outputs, build the
\* inputs and the outputs, hash, then sign every input.  sig is what
\* ecdsa.Verify will say of the signatures.
NewUTXOTransaction(bucket, hashes, from, to, amount, sig) ==
    LET r == FindSpendableOutputs(bucket, from, amount)
        inputs == InputsFrom(r.unspentOutputs, KeysInOrder(DOMAIN r.unspentOutputs), 1, from)
        outputs == <<NewTXOutput(amount, to)>> \o
                   (IF r.accumulated > amount
                    THEN <<NewTXOutput(r.accumulated - amount, from)>> ELSE <<>>)
        body == [ID |-> EmptyHash, Vin |-> inputs, Vout |-> outputs]
    IN IF r.accumulated < amount
       THEN [err |-> ErrNotEnoughFunds, accumulated |-> r.accumulated]
       ELSE [err |-> Nil, accumulated |-> r.accumulated, body |-> body,
             tx |-> [ID |-> HashIn(hashes, body),
                     Vin |-> [i \in DOMAIN inputs |-> [inputs[i] EXCEPT !.Signature = sig]],
                     Vout |-> outputs]]

\* block.NewGenesisBlock(coinbase), for the coinbase CreateBlockchain makes
GenesisFor(address) ==
    NewBlock(<<CoinbaseTo(address, 0)>>, EmptyHash, 0, 0, DigestRow(0, GenesisHash))

\* A creation that does not look for the file first
CreateBlockchainOver(dbExists, address) ==
    LET genesis == GenesisFor(address)
    IN [err |-> Nil, blocks |-> Put(blocks, genesis.Hash, genesis),
        l |-> genesis.Hash, tip |-> genesis.Hash]

\* blockchain.CreateBlockchain(address, nodeID)
CreateBlockchain(dbExists, address) ==
    IF dbExists THEN [err |-> ErrDBExists, blocks |-> blocks, l |-> l, tip |-> tip]
    ELSE LET genesis == GenesisFor(address)
         IN [err |-> Nil, blocks |-> Put(<<>>, genesis.Hash, genesis),
             l |-> genesis.Hash, tip |-> genesis.Hash]

\* blockchain.NewBlockchain(nodeID): the error, the tip read from key "l"
NewBlockchain(dbExists) ==
    IF ~dbExists THEN [err |-> ErrDBDoesNotExist, tip |-> EmptyHash]
    ELSE [err |-> Nil, tip |-> l]

\* getBalance, the sum over UTXOSet.FindUTXO
Balance(bucket, address) == SumValues(UTXOSetFindUTXO(bucket, address))

UxRet(op, err, address, to, amount, balance, accumulated) ==
    [op |-> op, err |-> err, address |-> address, to |-> to, amount |-> amount,
     balance |-> balance, accumulated |-> accumulated]

Signatures == {"good", "bad"}

UxInit ==
    /\ blocks = <<>>
    /\ l = EmptyHash
    /\ tip = EmptyHash
    /\ utxoTip = EmptyHash
    /\ sha = {}
    /\ serverUp = FALSE
    /\ mempool = {}
    /\ blocksInTransit = <<>>
    /\ blockMsgs = {}
    /\ th = [h \in TxHandlers |-> Idle]
    /\ nextCb = 0
    /\ ret = Other
    /\ net = NetIdle /\ ux = UxIdle
    /\ pw = PwIdle /\ mk = MkIdle /\ sg = SgIdle

\* cli createblockchain: CreateBlockchain, then UTXOSet.Reindex
UxCreate(address) ==
    LET c == CreateBlockchain(ux.db, address)
    IN /\ blocks' = c.blocks
       /\ l' = c.l
       /\ tip' = c.tip
       /\ IF c.err # Nil
          THEN /\ ux' = [ux EXCEPT !.ret = UxRet("create", c.err, address, <<>>, 0, 0, 0)]
               /\ UNCHANGED <<utxoTip, sha>>
          ELSE /\ ux' = [ux EXCEPT !.db = TRUE, !.chainstate = Reindex',
                                   !.ret = UxRet("create", Nil, address, <<>>, 0, 0, 0)]
               /\ utxoTip' = c.tip
               /\ sha' = sha \cup {ShaEntry(blocks'[c.tip])}
       /\ UNCHANGED <<serverUp, mempool, blocksInTransit, blockMsgs, th, nextCb, ret, pw, mk, sg, net>>

\* cli send -mine: NewBlockchain, NewUTXOTransaction, NewCoinbaseTX(from),
\* MineBlock({coinbase, tx}), UTXOSet.Update(newBlock)
UxSend(from, to, amount, sig) ==
    /\ amount > 0
    /\ Cardinality(DOMAIN blocks) < MaxBlocks
    /\ LET o == NewBlockchain(ux.db)
           n == NewUTXOTransaction(ux.chainstate, ux.hashes, from, to, amount, sig)
       IN IF o.err # Nil
          THEN /\ ux' = [ux EXCEPT !.ret = UxRet("send", o.err, from, to, amount, 0, 0)]
               /\ UNCHANGED <<blocks, l, tip, utxoTip, sha>>
          ELSE IF n.err # Nil
          THEN /\ ux' = [ux EXCEPT !.ret = UxRet("send", n.err, from, to, amount, 0, n.accumulated)]
               /\ UNCHANGED <<blocks, l, tip, utxoTip, sha>>
          ELSE LET hashes == IF \E k \in DOMAIN ux.hashes : ux.hashes[k] = n.body
                             THEN ux.hashes ELSE Append(ux.hashes, n.body)
                   txs == <<CoinbaseTo(from, Cardinality(DOMAIN blocks)), n.tx>>
                   e == MineBlockVerify(txs, 1)
               IN IF e # Nil
                  THEN /\ ux' = [ux EXCEPT !.ret = UxRet("send", e, from, to, amount, 0, n.accumulated)]
                       /\ UNCHANGED <<blocks, l, tip, utxoTip, sha>>
                  ELSE LET r == MineBlockRead
                           b == NewBlock(txs, r.lastHash, r.lastHeight + 1, r.lastHeight + 1,
                                         DigestRow(0, Cardinality(DOMAIN blocks)))
                           w == MineBlockWrite(b)
                       IN /\ blocks' = w.blocks
                          /\ l' = w.l
                          /\ tip' = w.tip
                          /\ utxoTip' = w.tip
                          /\ sha' = sha \cup {ShaEntry(b)}
                             /\ ux' = [ux EXCEPT !.hashes = hashes,
                                      !.chainstate = Update(ux.chainstate, b),
                                      !.ret = UxRet("send", Nil, from, to, amount, 0, n.accumulated)]
    /\ UNCHANGED <<serverUp, mempool, blocksInTransit, blockMsgs, th, nextCb, ret, pw, mk, sg, net>>

\* cli reindexutxo: NewBlockchain, then UTXOSet.Reindex
UxReindex ==
    /\ LET o == NewBlockchain(ux.db)
       IN IF o.err # Nil
          THEN ux' = [ux EXCEPT !.ret = UxRet("reindex", o.err, <<>>, <<>>, 0, 0, 0)]
          ELSE ux' = [ux EXCEPT !.chainstate = Reindex,
                                !.ret = UxRet("reindex", Nil, <<>>, <<>>, 0, 0, 0)]
    /\ UNCHANGED <<nodeVars, pw, mk, sg, net>>

\* cli getbalance: NewBlockchain, then the sum over UTXOSet.FindUTXO
UxGetBalance(address) ==
    /\ LET o == NewBlockchain(ux.db)
       IN IF o.err # Nil
          THEN ux' = [ux EXCEPT !.ret = UxRet("getbalance", o.err, address, <<>>, 0, 0, 0)]
          ELSE ux' = [ux EXCEPT !.ret = UxRet("getbalance", Nil, address, <<>>, 0,
                                              Balance(ux.chainstate, address), 0)]
    /\ UNCHANGED <<nodeVars, pw, mk, sg, net>>

UxNext ==
    \/ \E address \in Addresses : UxCreate(address)
    \/ \E from \in Addresses, to \in Addresses, amount \in SendAmounts, sig \in Signatures :
          UxSend(from, to, amount, sig)
    \/ UxReindex
    \/ \E address \in Addresses : UxGetBalance(address)

SpecUTXO == UxInit /\ [][UxNext]_vars

----------------------------------------------------------------------------
(* The chain as the claims on the UTXO index speak of it *)

\* The transactions of the blocks on the chain, tip to genesis
ChainTxs == UNION {Range(b.Transactions) : b \in Range(Iterate)}

\* The outputs on the chain: transaction id, index, output
ChainOutputs ==
    UNION {{[Txid |-> tx.ID, Vout |-> i - 1, out |-> tx.Vout[i]] : i \in DOMAIN tx.Vout} :
           tx \in ChainTxs}

\* The references (transaction id, index) made by the inputs on the chain
ChainRefs ==
    UNION {{[Txid |-> tx.Vin[i].Txid, Vout |-> tx.Vin[i].Vout] : i \in DOMAIN tx.Vin} :
           tx \in ChainTxs}

Referenced(o) == [Txid |-> o.Txid, Vout |-> o.Vout] \in ChainRefs

RECURSIVE SumOutputs(_)
SumOutputs(S) ==
    IF S = {} THEN 0
    ELSE LET o == CHOOSE x \in S : TRUE IN o.out.Value + SumOutputs(S \ {o})

PaidTo(A) == {o \in ChainOutputs : o.out.PublicKeyHash = A}

\* C14: after Reindex, for every public key hash A, the values FindUTXO(A)
\* returns sum to the outputs paying A on the chain minus those of them that
\* an input of a transaction on the chain references.
C14_ReindexBalance ==
    (ux.ret.op \in {"create", "reindex"} /\ ux.ret.err = Nil) =>
        \A A \in Addresses :
            Balance(ux.chainstate, A) =
                SumOutputs(PaidTo(A)) - SumOutputs({o \in PaidTo(A) : Referenced(o)})

\* A reindex of a chain of three blocks on which some address has been paid
\* outputs that are spent and outputs that are not
C14_Witness ==
    /\ ux.ret.op = "reindex" /\ ux.ret.err = Nil
    /\ Len(Iterate) >= 3
    /\ \E A \in Addresses :
          /\ \E o \in PaidTo(A) : Referenced(o)
          /\ \E o \in PaidTo(A) : ~Referenced(o)
          /\ \E o \in ChainOutputs : o.out.PublicKeyHash # A /\ Referenced(o)

\* Update applied for the blocks bs[i], bs[i - 1], ..., bs[1] in this order
RECURSIVE UpdatesDownFrom(_, _, _)
UpdatesDownFrom(bucket, bs, i) ==
    IF i < 1 THEN bucket ELSE UpdatesDownFrom(Update(bucket, bs[i]), bs, i - 1)

\* The entry of the genesis block, then Update for each block up to the tip
UpdatesFromGenesis == UpdatesDownFrom(<<>>, Iterate, Len(Iterate))

\* C15: on every chain built by createblockchain and mined blocks, Reindex
\* gives the chainstate bucket the keys and output lists that the genesis
\* entry followed by Update(block), genesis to tip, gives it.
C15_ReindexIsReplay ==
    ux.db => Reindex = UpdatesFromGenesis

\* The transaction on the chain with the given id
ChainTx(ID) == CHOOSE tx \in ChainTxs : tx.ID = ID

\* C16: after Reindex and after every Update each chainstate entry holds the
\* unspent outputs of its transaction in their original positions: the
\* output at index i of the entry is output i of the transaction.
C16_OriginalPositions ==
    ux.db =>
        \A k \in DOMAIN ux.chainstate : \A i \in DOMAIN ux.chainstate[k] :
            /\ \E tx \in ChainTxs : tx.ID = k
            /\ i <= Len(ChainTx(k).Vout)
            /\ ux.chainstate[k][i] = ChainTx(k).Vout[i]

\* C17: a send of an amount fails with not-enough-funds exactly when the
\* outputs of the UTXO index locked to the sender sum to less than the
\* amount, and FindSpendableOutputs accumulates at least the amount exactly
\* when they sum to at least the amount.
C17_NotEnoughFunds ==
    [][(ux'.ret.op = "send" /\ ux.db) =>
          LET total == Balance(ux.chainstate, ux'.ret.address)
          IN /\ (ux'.ret.accumulated >= ux'.ret.amount) <=> (total >= ux'.ret.amount)
             /\ (ux'.ret.err = ErrNotEnoughFunds) <=> (total < ux'.ret.amount)]_vars

\* A send refused although the sender owns outputs, and on a longer chain
C17_Witness ==
    /\ ux.ret.op = "send" /\ ux.ret.err = ErrNotEnoughFunds
    /\ ux.ret.accumulated > 0
    /\ Balance(ux.chainstate, ux.ret.address) = ux.ret.accumulated
    /\ Len(Iterate) >= 2

\* The UTXO index holds what a Reindex of the chain would give it
InSync == ux.db /\ ux.chainstate = Reindex

\* C18: from an index in sync, a send -mine of n from F to T, F # T and
\* 0 < n <= balance(F), appends one block holding the coinbase and the
\* transaction and applies Update; GetBalance(T) has then grown by n and
\* GetBalance(F) has changed by subsidy - n.
C18_SendMovesFunds ==
    [][(/\ ux'.ret.op = "send" /\ InSync
        /\ ux'.ret.address # ux'.ret.to
        /\ 0 < ux'.ret.amount
        /\ ux'.ret.amount <= Balance(ux.chainstate, ux'.ret.address)) =>
          /\ ux'.ret.err = Nil
          /\ Cardinality(DOMAIN blocks') = Cardinality(DOMAIN blocks) + 1
          /\ blocks'[tip'].PrevBlockHash = tip
          /\ Len(blocks'[tip'].Transactions) = 2
          /\ IsCoinbase(blocks'[tip'].Transactions[1])
          /\ Balance(ux'.chainstate, ux'.ret.to) =
                 Balance(ux.chainstate, ux'.ret.to) + ux'.ret.amount
          /\ Balance(ux'.chainstate, ux'.ret.address) =
                 Balance(ux.chainstate, ux'.ret.address) + subsidy - ux'.ret.amount]_vars

----------------------------------------------------------------------------
(* SpecMiners: a miner node whose server runs two handleConnection         *)
(* goroutines; each takes tx messages and, with two transactions in the    *)
(* mempool, mines.  No block arrives from a peer: every block of the store *)
(* is the genesis block or a block MineBlock wrote.                        *)

MineHandlers == {1, 2}

MinersInit ==
    /\ blocks = Put(<<>>, GenesisHash, NewGenesisBlock)
    /\ l = GenesisHash
    /\ tip = GenesisHash
    /\ utxoTip = GenesisHash
    /\ sha = {ShaEntry(NewGenesisBlock)}
    /\ serverUp = FALSE
    /\ mempool = {}
    /\ blocksInTransit = <<>>
    /\ blockMsgs = {}
    /\ th = [h \in MineHandlers |-> Idle]
    /\ nextCb = 0
    /\ ret = Other
    /\ net = NetIdle /\ ux = UxIdle /\ pw = PwIdle /\ mk = MkIdle /\ sg = SgIdle

MinersNext ==
    \/ StartServer
    \/ \E h \in MineHandlers, t \in UserTxs : HandleTx(h, t)
    \/ \E h \in MineHandlers : Collect(h)
    \/ \E h \in MineHandlers : MineVerify(h)
    \/ \E h \in MineHandlers : MineRead(h)
    \/ \E h \in MineHandlers : MineWrite(h)
    \/ \E h \in MineHandlers : MineFinish(h)

SpecMiners == MinersInit /\ [][MinersNext]_vars

\* Blockchain.GetBlockHashes: the hashes appended while iterating from the tip
RECURSIVE HashesFrom(_, _)
HashesFrom(h, fuel) ==
    IF h \notin DOMAIN blocks \/ fuel = 0 THEN <<>>
    ELSE IF blocks[h].PrevBlockHash = EmptyHash THEN <<blocks[h].Hash>>
         ELSE <<blocks[h].Hash>> \o HashesFrom(blocks[h].PrevBlockHash, fuel - 1)

GetBlockHashes == HashesFrom(tip, Cardinality(DOMAIN blocks))

\* C20: after Create and n successful MineBlock appends on one node, the
\* iteration from the tip yields n + 1 blocks, the latest first, each with
\* the hash of the next as its PrevBlockHash, and the genesis block last;
\* GetBlockHashes returns the hashes of these blocks in this order.
C20_IterateYieldsAll ==
    blocks # <<>> =>
        LET bs == Iterate
        IN /\ Len(bs) = Cardinality(DOMAIN blocks)
           /\ \A i \in 1..(Len(bs) - 1) :
                 bs[i].PrevBlockHash = bs[i + 1].Hash /\ bs[i].Height = bs[i + 1].Height + 1
           /\ bs[Len(bs)].PrevBlockHash = EmptyHash /\ bs[Len(bs)].Height = 0
           /\ GetBlockHashes = [i \in DOMAIN bs |-> bs[i].Hash]

----------------------------------------------------------------------------
(* The peers: internal/server.  Every peer is one process with its own     *)
(* globals (nodeAddress, knownNodes, blocksInTransit, mempool) and its own *)
(* chain file.  A handler is one step; what it sends is delivered when the *)
(* dial succeeds, that is, when the target listens.                        *)

\* Transactions a wallet submits, all valid on the genesis chain
MaxNetTxs == 2
\* Version messages carry a best height up to this one (SpecPeers)
MaxForeignHeight == 2
\* The known-peers list is followed up to this length (SpecPeers)
MaxKnown == 3

ErrUnknownGetDataType == "unknown getdata type"

Coordinator == "localhost:5000"
Miner == "localhost:5001"
Wallet == "localhost:5002"
Nodes == {Coordinator, Miner, Wallet}

NoAddress == ""
\* nodeAddress of a process that never ran StartServer (the CLI)

\* the -miner flag of startnode: the third peer is started without it
miningAddress(n) == IF n = Wallet THEN <<>> ELSE SigOwner

NetBlock(hash, height, prev, txs) ==
    [Hash |-> hash, Height |-> height, PrevBlockHash |-> prev, Transactions |-> txs]

NetNoBlock == NetBlock(EmptyHash, 0, EmptyHash, {})
NetGenesis == NetBlock(GenesisHash, 0, EmptyHash, {CoinbaseID(0)})

\* A request on the wire: the 12-byte command and the gob payload, whose
\* fields are those of Version, GetBlocks, Inv, GetData, Block, Tx and Addr
\* (a field a payload lacks is at its zero value).  ok: the dial succeeded.
Request(to, cmd, from, kind, items, height, bl, tx) ==
    [to |-> to, cmd |-> cmd, AddrFrom |-> from, Type |-> kind, Items |-> items,
     BestHeight |-> height, Block |-> bl, Tx |-> tx, ok |-> TRUE]

\* The globals of a process at its start, and its chain file holding the
\* shared genesis block.  out: the sends of the handler that ran last;
\* err: its result; cbs: the coinbases it made; items, ann, req: the last
\* `block` inv, its sender, and the blocks requested since.
Process(n) ==
    [nodeAddress |-> n, up |-> FALSE, knownNodes |-> <<Coordinator>>,
     blocksInTransit |-> <<>>, mempool |-> {},
     blocks |-> (GenesisHash :> NetGenesis), tip |-> GenesisHash,
     utxoTip |-> GenesisHash, reindexed |-> FALSE,
     out |-> <<>>, err |-> Nil, cbs |-> <<>>, items |-> <<>>, ann |-> NoAddress,
     req |-> <<>>]

\* A handler starts with nothing sent
Enter(s) == [s EXCEPT !.out = <<>>, !.err = Nil, !.cbs = <<>>, !.reindexed = FALSE]

nodeIsKnown(knownNodes, addr) ==
    \E i \in 1..Len(knownNodes) : knownNodes[i] = addr

\* sendData evicting the target whatever the dial gave
sendDataEvictAlways(s, request, live) ==
    [s EXCEPT !.knownNodes = SelectSeq(@, LAMBDA node : node # request.to),
              !.out = Append(@, [request EXCEPT !.ok = request.to \in live])]

\* server.sendData: a failed dial rebuilds knownNodes without the target
sendData(s, request, live) ==
    IF request.to \notin live
    THEN [s EXCEPT !.knownNodes = SelectSeq(@, LAMBDA node : node # request.to),
                   !.out = Append(@, [request EXCEPT !.ok = FALSE])]
    ELSE [s EXCEPT !.out = Append(@, request)]

GetBestHeight(s) == s.blocks[s.tip].Height

sendVersion(s, addr, live) ==
    sendData(s, Request(addr, "version", s.nodeAddress, "", <<>>, GetBestHeight(s),
                        NetNoBlock, 0), live)

sendGetBlocks(s, addr, live) ==
    sendData(s, Request(addr, "getblocks", s.nodeAddress, "", <<>>, 0, NetNoBlock, 0), live)

sendInv(s, addr, kind, items, live) ==
    sendData(s, Request(addr, "inv", s.nodeAddress, kind, items, 0, NetNoBlock, 0), live)

sendGetData(s, addr, kind, id, live) ==
    sendData(s, Request(addr, "getdata", s.nodeAddress, kind, <<id>>, 0, NetNoBlock, 0), live)

sendBlock(s, addr, bl, live) ==
    sendData(s, Request(addr, "block", s.nodeAddress, "", <<>>, 0, bl, 0), live)

sendTx(s, addr, tx, live) ==
    sendData(s, Request(addr, "tx", s.nodeAddress, "", <<>>, 0, NetNoBlock, tx), live)

\* handleVersion answering a lower height with getblocks as well
handleVersionAsk(s, m, live) ==
    LET s1 == IF GetBestHeight(s) # m.BestHeight
              THEN sendGetBlocks(s, m.AddrFrom, live)
              ELSE s
    IN IF ~nodeIsKnown(s1.knownNodes, m.AddrFrom)
       THEN [s1 EXCEPT !.knownNodes = Append(@, m.AddrFrom)]
       ELSE s1

\* server.handleVersion
handleVersion(s, m, live) ==
    LET myBestHeight == GetBestHeight(s)
        foreignerBestHeight == m.BestHeight
        s1 == IF myBestHeight < foreignerBestHeight
              THEN sendGetBlocks(s, m.AddrFrom, live)
              ELSE IF myBestHeight > foreignerBestHeight
                   THEN sendVersion(s, m.AddrFrom, live)
                   ELSE s
    IN IF ~nodeIsKnown(s1.knownNodes, m.AddrFrom)
       THEN [s1 EXCEPT !.knownNodes = Append(@, m.AddrFrom)]
       ELSE s1

\* server.handleAddr: the list is appended as it came
handleAddr(s, m) == [s EXCEPT !.knownNodes = @ \o m.Items]

\* Blockchain.AddBlock on the chain file of process s
AddBlockAt(s, bl) ==
    IF bl.Hash \in DOMAIN s.blocks
    THEN s
    ELSE LET put == Put(s.blocks, bl.Hash, bl)
         IN IF bl.Height > put[s.tip].Height
            THEN [s EXCEPT !.blocks = put, !.tip = bl.Hash]
            ELSE [s EXCEPT !.blocks = put]

\* Blockchain.GetBlockHashes: the iterator from the tip; a hash that is not
\* stored ends the walk with the decoder's error
RECURSIVE HashesAt(_, _, _)
HashesAt(s, h, fuel) ==
    IF h \notin DOMAIN s.blocks \/ fuel = 0
    THEN [err |-> ErrDecode, hashes |-> <<>>]
    ELSE IF s.blocks[h].PrevBlockHash = EmptyHash
         THEN [err |-> Nil, hashes |-> <<h>>]
         ELSE LET rest == HashesAt(s, s.blocks[h].PrevBlockHash, fuel - 1)
              IN [err |-> rest.err,
                  hashes |-> IF rest.err = Nil THEN <<h>> \o rest.hashes ELSE <<>>]

\* UTXOSet.Reindex after the chain of s changed
ReindexAt(s) == [s EXCEPT !.utxoTip = s.tip, !.reindexed = TRUE]

\* Blockchain.MineBlock on the chain file of s: the block follows the tip
MineBlockAt(s, txs) ==
    LET lastHeight == s.blocks[s.tip].Height
        newBlock == NetBlock(500 + lastHeight + 1, lastHeight + 1, s.tip, txs)
    IN [s EXCEPT !.blocks = Put(@, newBlock.Hash, newBlock), !.tip = newBlock.Hash]

\* The sends of a loop over knownNodes, which ranges over the list as it
\* was when the loop began
RECURSIVE sendInvEach(_, _, _, _, _)
sendInvEach(s, nodes, kind, items, live) ==
    IF nodes = <<>>
    THEN s
    ELSE sendInvEach(sendInv(s, Head(nodes), kind, items, live), Tail(nodes),
                     kind, items, live)

\* Blockchain.VerifyTransaction at a peer for a transaction of the network.
\* The CLI signs what it sends and every transaction it refers to is on the
\* chain, so no lookup fails; a signature whose halves differ in length does
\* not verify (such a transaction is written -t).
VerifyTransactionAt(s, t) == t > 0

\* handleTx keeping the mined transactions in the mempool
MineTransactionsKeep(s, live) ==
    LET txs == {t \in s.mempool : VerifyTransactionAt(s, t)}
    IN IF txs = {}
       THEN s
       ELSE LET cbTx == CoinbaseTo(miningAddress(s.nodeAddress), GetBestHeight(s) + 1)
                s1 == [s EXCEPT !.cbs = Append(@, cbTx)]
                s2 == ReindexAt(MineBlockAt(s1, txs \cup {cbTx.ID}))
            IN sendInvEach(s2, SelectSeq(s2.knownNodes, LAMBDA node : node # s2.nodeAddress),
                           "block", <<s2.tip>>, live)

\* handleTx from the label MineTransactions on: each pass mines the
\* transactions of the mempool that verify, with a coinbase to
\* miningAddress (its random data is the height here), deletes them
\* from the mempool and announces the block; the loop goes on while the
\* mempool is not empty and ends on a pass that finds nothing valid.
RECURSIVE MineTransactions(_, _)
MineTransactions(s, live) ==
    LET txs == {t \in s.mempool : VerifyTransactionAt(s, t)}
    IN IF txs = {}
       THEN s
       ELSE LET cbTx == CoinbaseTo(miningAddress(s.nodeAddress), GetBestHeight(s) + 1)
                s1 == [s EXCEPT !.cbs = Append(@, cbTx)]
                s2 == ReindexAt(MineBlockAt(s1, txs \cup {cbTx.ID}))
                s3 == [s2 EXCEPT !.mempool = @ \ s2.blocks[s2.tip].Transactions]
                s4 == sendInvEach(s3, SelectSeq(s3.knownNodes,
                                      LAMBDA node : node # s3.nodeAddress),
                                  "block", <<s3.tip>>, live)
            IN IF s4.mempool # {} THEN MineTransactions(s4, live) ELSE s4

\* handleTx with the coordinator relaying to the sender as well
handleTxEcho(s, m, live) ==
    LET s1 == [s EXCEPT !.mempool = @ \cup {m.Tx}]
    IN sendInvEach(s1, SelectSeq(s1.knownNodes, LAMBDA node : node # s1.nodeAddress),
                   "tx", <<m.Tx>>, live)

\* handleTx entering the mining loop only above two transactions
handleTxLate(s, m, live) ==
    LET s1 == [s EXCEPT !.mempool = @ \cup {m.Tx}]
    IN IF s1.nodeAddress = s1.knownNodes[1]
       THEN sendInvEach(s1, SelectSeq(s1.knownNodes,
                            LAMBDA node : node # s1.nodeAddress /\ node # m.AddrFrom),
                        "tx", <<m.Tx>>, live)
       ELSE IF Cardinality(s1.mempool) > 2 /\ Len(miningAddress(s1.nodeAddress)) > 0
            THEN MineTransactions(s1, live)
            ELSE s1

\* server.handleTx
handleTx(s, m, live) ==
    LET s1 == [s EXCEPT !.mempool = @ \cup {m.Tx}]
    IN IF s1.knownNodes = <<>>
       THEN [s1 EXCEPT !.up = FALSE, !.err = "index out of range"]
       ELSE IF s1.nodeAddress = s1.knownNodes[1]
            THEN sendInvEach(s1, SelectSeq(s1.knownNodes,
                                 LAMBDA node : node # s1.nodeAddress /\ node # m.AddrFrom),
                             "tx", <<m.Tx>>, live)
            ELSE IF Cardinality(s1.mempool) >= 2 /\ Len(miningAddress(s1.nodeAddress)) > 0
                 THEN MineTransactions(s1, live)
                 ELSE s1

\* handleInv leaving the requested hash in the transit list
handleInvKeepFirst(s, m, live) ==
    IF m.Type = "block"
    THEN LET s1 == [s EXCEPT !.blocksInTransit = m.Items, !.items = m.Items,
                             !.ann = m.AddrFrom, !.req = <<>>]
             s2 == sendGetData(s1, m.AddrFrom, "block", m.Items[1], live)
         IN [s2 EXCEPT !.req = Append(@, m.Items[1])]
    ELSE IF m.Type = "tx" /\ m.Items[1] \notin s.mempool
         THEN sendGetData(s, m.AddrFrom, "tx", m.Items[1], live)
         ELSE s

\* server.handleInv
handleInv(s, m, live) ==
    IF m.Type = "block"
    THEN LET s1 == [s EXCEPT !.blocksInTransit = m.Items, !.items = m.Items,
                             !.ann = m.AddrFrom, !.req = <<>>]
             blockHash == m.Items[1]
             s2 == sendGetData(s1, m.AddrFrom, "block", blockHash, live)
         IN [s2 EXCEPT !.blocksInTransit = SelectSeq(@, LAMBDA b : b # blockHash),
                       !.req = Append(@, blockHash)]
    ELSE IF m.Type = "tx"
         THEN IF m.Items[1] \notin s.mempool
              THEN sendGetData(s, m.AddrFrom, "tx", m.Items[1], live)
              ELSE s
         ELSE s

\* server.handleGetBlocks
handleGetBlocks(s, m, live) ==
    LET r == HashesAt(s, s.tip, Cardinality(DOMAIN s.blocks))
    IN IF r.err # Nil
       THEN [s EXCEPT !.err = r.err]
       ELSE sendInv(s, m.AddrFrom, "block", r.hashes, live)

\* handleGetData answering an unknown kind with the zero transaction
handleGetDataAny(s, m, live) ==
    IF m.Type = "block"
    THEN IF m.Items[1] \notin DOMAIN s.blocks
         THEN [s EXCEPT !.err = ErrDecode]
         ELSE sendBlock(s, m.AddrFrom, s.blocks[m.Items[1]], live)
    ELSE sendTx(s, m.AddrFrom, IF m.Items[1] \in s.mempool THEN m.Items[1] ELSE 0, live)

\* server.handleGetData; mempool[txID] of an absent id is the zero Transaction
handleGetData(s, m, live) ==
    IF m.Type = "block"
    THEN IF m.Items[1] \notin DOMAIN s.blocks
         THEN [s EXCEPT !.err = ErrDecode]
         ELSE sendBlock(s, m.AddrFrom, s.blocks[m.Items[1]], live)
    ELSE IF m.Type = "tx"
         THEN sendTx(s, m.AddrFrom, IF m.Items[1] \in s.mempool THEN m.Items[1] ELSE 0, live)
         ELSE [s EXCEPT !.err = ErrUnknownGetDataType]

\* server.handleBlock
handleBlock(s, m, live) ==
    LET s1 == AddBlockAt(s, m.Block)
    IN IF Len(s1.blocksInTransit) > 0
       THEN LET blockHash == s1.blocksInTransit[1]
                s2 == sendGetData(s1, m.AddrFrom, "block", blockHash, live)
            IN [s2 EXCEPT !.blocksInTransit = Tail(@), !.req = Append(@, blockHash)]
       ELSE ReindexAt(s1)

----------------------------------------------------------------------------
(* SpecNet: the coordinator, a miner and a third peer, each a process that *)
(* is started once, and a wallet CLI submitting transactions.  The peers   *)
(* talk only to each other: every message in flight was sent by a handler. *)

NoRequest == Request(NoAddress, "none", NoAddress, "", <<>>, 0, NetNoBlock, 0)

\* The peers that listen: a dial to any other address fails
Live == {n \in Nodes : net.node[n].up}

Delivered(s) == {s.out[i] : i \in {j \in 1..Len(s.out) : s.out[j].ok}}

NetInit ==
    /\ NodeInit /\ ux = UxIdle /\ pw = PwIdle /\ mk = MkIdle /\ sg = SgIdle
    /\ net = [node |-> [n \in Nodes |-> Process(n)], msgs |-> {}, sub |-> 0,
              last |-> [op |-> "none", at |-> NoAddress, m |-> NoRequest]]

\* The step of process n that handled m (or ran op on its own) and left n as
\* s; out, err and reindexed are kept for the process that ran last only
Step(op, n, m, s, sub) ==
    /\ net' = [node |-> [k \in Nodes |-> IF k = n THEN s ELSE Enter(net.node[k])],
               msgs |-> (net.msgs \ {m}) \cup Delivered(s),
               sub |-> sub,
               last |-> [op |-> op, at |-> n, m |-> m]]
    /\ UNCHANGED <<nodeVars, pw, mk, sg, ux>>

\* server.StartServer: listen, open the chain, greet knownNodes[0]
NetStartServer(n) ==
    /\ ~net.node[n].up
    /\ LET s == [Enter(net.node[n]) EXCEPT !.up = TRUE]
       IN Step("StartServer", n, NoRequest,
               IF s.nodeAddress # s.knownNodes[1]
               THEN sendVersion(s, s.knownNodes[1], Live \cup {n})
               ELSE s,
               net.sub)

\* server.SendTransaction in a CLI process (send -mine=false): the globals
\* of that process are the initial ones, and its nodeAddress is empty.
\* tx is the t-th transaction, t or -t as its signature came out.
NetSendTransaction(t, tx) ==
    /\ t = net.sub + 1
    /\ t <= MaxNetTxs
    /\ LET cli == sendTx(Process(NoAddress), Process(NoAddress).knownNodes[1], tx, Live)
       IN /\ net' = [node |-> [k \in Nodes |-> Enter(net.node[k])],
                     msgs |-> net.msgs \cup Delivered(cli),
                     sub |-> t,
                     last |-> [op |-> "SendTransaction", at |-> NoAddress, m |-> cli.out[1]]]
          /\ UNCHANGED <<nodeVars, pw, mk, sg, ux>>

\* server.handleConnection: the command picks the handler
Arrived(m, cmd) == m \in net.msgs /\ m.cmd = cmd /\ net.node[m.to].up

NetVersion(m) ==
    /\ Arrived(m, "version")
    /\ Step("version", m.to, m, handleVersion(Enter(net.node[m.to]), m, Live), net.sub)

NetGetBlocks(m) ==
    /\ Arrived(m, "getblocks")
    /\ Step("getblocks", m.to, m, handleGetBlocks(Enter(net.node[m.to]), m, Live), net.sub)

NetInv(m) ==
    /\ Arrived(m, "inv")
    /\ Step("inv", m.to, m, handleInv(Enter(net.node[m.to]), m, Live), net.sub)

NetGetData(m) ==
    /\ Arrived(m, "getdata")
    /\ Step("getdata", m.to, m, handleGetData(Enter(net.node[m.to]), m, Live), net.sub)

NetBlockMsg(m) ==
    /\ Arrived(m, "block")
    /\ Step("block", m.to, m, handleBlock(Enter(net.node[m.to]), m, Live), net.sub)

NetTx(m) ==
    /\ Arrived(m, "tx")
    /\ Step("tx", m.to, m, handleTx(Enter(net.node[m.to]), m, Live), net.sub)

NetNext ==
    \/ \E n \in Nodes : NetStartServer(n)
    \/ \E t \in 1..MaxNetTxs, good \in BOOLEAN : NetSendTransaction(t, IF good THEN t ELSE -t)
    \/ \E m \in net.msgs : NetVersion(m)
    \/ \E m \in net.msgs : NetGetBlocks(m)
    \/ \E m \in net.msgs : NetInv(m)
    \/ \E m \in net.msgs : NetGetData(m)
    \/ \E m \in net.msgs : NetBlockMsg(m)
    \/ \E m \in net.msgs : NetTx(m)

SpecNet == NetInit /\ [][NetNext]_vars

\* Each connection is served by a goroutine of its own (server.go:58), which
\* the Go scheduler runs to its end: a message that arrived is handled.
\* Starting a peer and submitting a transaction are up to the operator.
NetHandle ==
    \E m \in net.msgs :
        NetVersion(m) \/ NetGetBlocks(m) \/ NetInv(m) \/ NetGetData(m)
            \/ NetBlockMsg(m) \/ NetTx(m)

SpecNetFair == SpecNet /\ WF_vars(NetHandle)


----------------------------------------------------------------------------
(* SpecPeers: one peer, the coordinator, facing peers that may be any      *)
(* program: they send it version, addr, getdata, tx and block messages of  *)
(* their choosing, and each of its dials succeeds or fails.                *)

Subject == Coordinator
Others == Nodes \ {Subject}

\* A block a foreign miner built on the peer's tip
ForeignBlock(s) ==
    NetBlock(500 + GetBestHeight(s) + 1, GetBestHeight(s) + 1, s.tip,
             {CoinbaseID(GetBestHeight(s) + 1)})

\* A block of a peer that gives it a height above the tip's and no
\* predecessor; DeserializeBlock takes the fields as they come
HeadlessBlock(s) ==
    NetBlock(600 + GetBestHeight(s) + 1, GetBestHeight(s) + 1, EmptyHash,
             {CoinbaseID(GetBestHeight(s) + 1)})

AddrLists ==
    {<<a>> : a \in Nodes} \cup {<<a, b>> : a \in Nodes, b \in Nodes}

PeersInit ==
    /\ NodeInit /\ ux = UxIdle /\ pw = PwIdle /\ mk = MkIdle /\ sg = SgIdle
    /\ net = [node |-> [n \in Nodes |-> IF n = Subject
                                        THEN [Process(n) EXCEPT !.up = TRUE]
                                        ELSE Process(n)],
              msgs |-> {}, sub |-> 0,
              last |-> [op |-> "none", at |-> NoAddress, m |-> NoRequest]]

\* The peer handled m and is left as s; what it sent is the other side's
PeersStep(m, s) ==
    /\ net.node[Subject].up
    /\ net' = [net EXCEPT !.node[Subject] = s,
                          !.last = [op |-> m.cmd, at |-> Subject, m |-> m]]
    /\ UNCHANGED <<nodeVars, pw, mk, sg, ux>>

PeersVersion(from, h, live) ==
    /\ Len(net.node[Subject].knownNodes) < MaxKnown
    /\ LET m == Request(Subject, "version", from, "", <<>>, h, NetNoBlock, 0)
       IN PeersStep(m, handleVersion(Enter(net.node[Subject]), m, live))

PeersAddr(list) ==
    /\ Len(net.node[Subject].knownNodes) + Len(list) <= MaxKnown
    /\ LET m == Request(Subject, "addr", NoAddress, "", list, 0, NetNoBlock, 0)
       IN PeersStep(m, handleAddr(Enter(net.node[Subject]), m))

PeersGetData(from, kind, id, live) ==
    /\ net.node[Subject].up
    /\ LET m == Request(Subject, "getdata", from, kind, <<id>>, 0, NetNoBlock, 0)
       IN PeersStep(m, handleGetData(Enter(net.node[Subject]), m, live))

PeersTx(from, t, live) ==
    /\ net.node[Subject].up
    /\ LET m == Request(Subject, "tx", from, "", <<>>, 0, NetNoBlock, t)
       IN PeersStep(m, handleTx(Enter(net.node[Subject]), m, live))

PeersBlock(from, bl, live) ==
    /\ GetBestHeight(net.node[Subject]) < MaxForeignHeight
    /\ LET m == Request(Subject, "block", from, "", <<>>, 0, bl, 0)
       IN PeersStep(m, handleBlock(Enter(net.node[Subject]), m, live))

PeersNext ==
    \/ \E list \in AddrLists : PeersAddr(list)
    \/ \E live \in SUBSET Others, from \in Others, h \in 0..MaxForeignHeight :
          PeersVersion(from, h, live)
    \/ \E live \in SUBSET Others, from \in Others,
          kind \in {"block", "tx", "utxo"}, id \in {GenesisHash, 1, 2} :
          PeersGetData(from, kind, id, live)
    \/ \E live \in SUBSET Others, from \in Others, t \in 1..MaxNetTxs :
          PeersTx(from, t, live)
    \/ \E live \in SUBSET Others, from \in Others,
          bl \in {ForeignBlock(net.node[Subject]), HeadlessBlock(net.node[Subject])} :
          PeersBlock(from, bl, live)

SpecPeers == PeersInit /\ [][PeersNext]_vars

\* SpecAnnounce: the same peer taking `block` invs and block messages from
\* peers that announce and send what they choose.  Each connection has a
\* handler goroutine of its own; the handlers run one after the other here,
\* in every order.
InvLists == {<<501>>, <<502, 501>>, <<601>>}

PeersInv(from, items, live) ==
    /\ net.node[Subject].up
    /\ LET m == Request(Subject, "inv", from, "block", items, 0, NetNoBlock, 0)
       IN PeersStep(m, handleInv(Enter(net.node[Subject]), m, live))

AnnounceNext ==
    \/ \E live \in SUBSET Others, from \in Others, items \in InvLists :
          PeersInv(from, items, live)
    \/ \E live \in SUBSET Others, from \in Others,
          bl \in {ForeignBlock(net.node[Subject]), HeadlessBlock(net.node[Subject])} :
          PeersBlock(from, bl, live)

SpecAnnounce == PeersInit /\ [][AnnounceNext]_vars


----------------------------------------------------------------------------
(* Claims about the peers *)

\* In a step that ran a handler: the message, and the process before and after
Handled == net'.last.m
Was == net.node[net'.last.at]
Now == net'.node[net'.last.at]

\* C21: a version message from peer R with best height h makes the node call
\* one send, a getblocks to R, if h is above its own best height; one send,
\* a version to R carrying its own height, if h is below; no send if the
\* heights are equal; and R is in knownNodes afterwards in every case.
C21_VersionReply ==
    [][net'.last.op = "version" =>
         /\ Handled.BestHeight > GetBestHeight(Was) =>
                /\ Len(Now.out) = 1
                /\ Now.out[1].cmd = "getblocks"
                /\ Now.out[1].to = Handled.AddrFrom
         /\ Handled.BestHeight < GetBestHeight(Was) =>
                /\ Len(Now.out) = 1
                /\ Now.out[1].cmd = "version"
                /\ Now.out[1].to = Handled.AddrFrom
                /\ Now.out[1].BestHeight = GetBestHeight(Was)
         /\ Handled.BestHeight = GetBestHeight(Was) => Now.out = <<>>
         /\ nodeIsKnown(Now.knownNodes, Handled.AddrFrom)]_vars

\* A version with a lower height was answered by a version, the dial failed,
\* and the sender is known all the same
C21_Witness ==
    /\ net.last.op = "version"
    /\ net.last.m.BestHeight < GetBestHeight(net.node[Subject])
    /\ Len(net.node[Subject].out) = 1
    /\ net.node[Subject].out[1].cmd = "version"
    /\ ~net.node[Subject].out[1].ok
    /\ nodeIsKnown(net.node[Subject].knownNodes, net.last.m.AddrFrom)


\* C22: whatever version and addr messages a node has handled, no address
\* occurs twice in its knownNodes.
C22_KnownOnce ==
    \A n \in Nodes :
        \A i, j \in 1..Len(net.node[n].knownNodes) :
            net.node[n].knownNodes[i] = net.node[n].knownNodes[j] => i = j


\* The one getdata a handler sent, for the item id of the given kind, to addr
OneGetData(s, addr, kind, id) ==
    /\ Len(s.out) = 1
    /\ s.out[1].cmd = "getdata"
    /\ s.out[1].to = addr
    /\ s.out[1].Type = kind
    /\ s.out[1].Items = <<id>>

\* C23: on a `block` inv with items h1..hn from P the node asks P for h1 and
\* keeps h2..hn in transit; on each block it then receives it asks the sender
\* for the first hash in transit and takes it off the list, so the hashes
\* asked for followed by those in transit are always h1..hn, in that order;
\* it reindexes the UTXO set on a block that finds the list empty, and only
\* then.
C23_FetchInOrder ==
    [][/\ (net'.last.op = "inv" /\ Handled.Type = "block") =>
              /\ OneGetData(Now, Handled.AddrFrom, "block", Handled.Items[1])
              /\ Now.blocksInTransit = Tail(Handled.Items)
              /\ Now.items = Handled.Items
              /\ ~Now.reindexed
       /\ net'.last.op = "block" =>
              IF Was.blocksInTransit # <<>>
              THEN /\ OneGetData(Now, Handled.AddrFrom, "block", Was.blocksInTransit[1])
                   /\ Now.blocksInTransit = Tail(Was.blocksInTransit)
                   /\ ~Now.reindexed
              ELSE /\ Now.out = <<>>
                   /\ Now.blocksInTransit = <<>>
                   /\ Now.reindexed
       /\ net'.last.op \in {"inv", "block"} =>
              Now.req \o Now.blocksInTransit = Now.items]_vars

\* The third peer asked for the mined block, then for the genesis block, and
\* reindexed on the second block it received
C23_Witness ==
    /\ net.last.op = "block"
    /\ net.last.at = Wallet
    /\ Len(net.node[Wallet].items) = 2
    /\ net.node[Wallet].req = net.node[Wallet].items
    /\ net.node[Wallet].blocksInTransit = <<>>
    /\ net.node[Wallet].reindexed


\* The globals and the chain file of a process
Globals(s) ==
    <<s.up, s.knownNodes, s.blocksInTransit, s.mempool, s.blocks, s.tip, s.utxoTip>>

\* C24: a getdata of kind block for a stored hash is answered by one block
\* message to the sender carrying the block stored under that hash; a getdata
\* of kind tx for an id in the mempool by one tx message to the sender
\* carrying that transaction; a getdata of any other kind returns
\* unknown-getdata-type, sends nothing and leaves the node as it was.
C24_GetDataReply ==
    [][net'.last.op = "getdata" =>
         /\ (Handled.Type = "block" /\ Handled.Items[1] \in DOMAIN Was.blocks) =>
                /\ Len(Now.out) = 1
                /\ Now.out[1].cmd = "block"
                /\ Now.out[1].to = Handled.AddrFrom
                /\ Now.out[1].Block = Was.blocks[Handled.Items[1]]
                /\ Now.err = Nil
         /\ (Handled.Type = "tx" /\ Handled.Items[1] \in Was.mempool) =>
                /\ Len(Now.out) = 1
                /\ Now.out[1].cmd = "tx"
                /\ Now.out[1].to = Handled.AddrFrom
                /\ Now.out[1].Tx = Handled.Items[1]
                /\ Now.err = Nil
         /\ Handled.Type \notin {"block", "tx"} =>
                /\ Now.err = ErrUnknownGetDataType
                /\ Now.out = <<>>
                /\ Globals(Now) = Globals(Was)]_vars

\* A getdata of an unknown kind was refused by a node that has a transaction
\* in its mempool and a block beyond the genesis block
C24_Witness ==
    /\ net.last.op = "getdata"
    /\ net.last.m.Type = "utxo"
    /\ net.last.m.Items[1] \in net.node[Subject].mempool
    /\ GetBestHeight(net.node[Subject]) > 0
    /\ net.node[Subject].err = ErrUnknownGetDataType
    /\ net.node[Subject].out = <<>>


\* C25: a tx message puts the transaction in the mempool; the coordinator
\* then sends an inv of kind tx with that id to the known peers other than
\* itself and the sender, and to no one else, and it mines nothing.
C25_CoordinatorRelays ==
    [][net'.last.op = "tx" =>
         /\ Now.mempool = Was.mempool \cup {Handled.Tx}
         /\ Was.nodeAddress = Coordinator =>
                /\ {Now.out[i].to : i \in 1..Len(Now.out)} =
                       Range(Was.knownNodes) \ {Was.nodeAddress, Handled.AddrFrom}
                /\ \A i \in 1..Len(Now.out) :
                       /\ Now.out[i].cmd = "inv"
                       /\ Now.out[i].Type = "tx"
                       /\ Now.out[i].Items = <<Handled.Tx>>
                /\ Now.blocks = Was.blocks
                /\ Now.tip = Was.tip]_vars

\* The coordinator, knowing both other peers, relayed the second transaction
\* of its mempool to the peer that had not sent it
C25_Witness ==
    /\ net.last.op = "tx"
    /\ net.last.m.AddrFrom = Miner
    /\ Range(net.node[Coordinator].knownNodes) = Nodes
    /\ Cardinality(net.node[Coordinator].mempool) = 2
    /\ Len(net.node[Coordinator].out) = 1
    /\ net.node[Coordinator].out[1].to = Wallet
    /\ net.node[Coordinator].out[1].cmd = "inv"


\* Transaction t is on its way to the coordinator, which knows the miner
Submitted(t) ==
    /\ \E m \in net.msgs : m.cmd = "tx" /\ m.to = Coordinator /\ m.Tx = t
    /\ nodeIsKnown(net.node[Coordinator].knownNodes, Miner)

\* Transaction t is in a block the miner mined
Mined(t) ==
    \E h \in DOMAIN net.node[Miner].blocks :
        /\ h # GenesisHash
        /\ t \in net.node[Miner].blocks[h].Transactions

\* C26 as stated: with the coordinator and the miner running, one valid
\* transaction submitted to the coordinator, and no other, is eventually in
\* a block mined by the miner.
C26_SingleTxMined ==
    ([](net.sub <= 1) /\ <>Submitted(1)) => <>Mined(1)

\* C26, amended: two valid transactions submitted to the coordinator, and no
\* other, are eventually both in a block mined by the miner.
C26_TwoTxsMined ==
    ([](net.sub <= 2) /\ <>Submitted(1) /\ <>Submitted(2)) => <>(Mined(1) /\ Mined(2))

\* The miner mined both transactions, and the coordinator has the block
C26_Witness ==
    /\ Mined(1) /\ Mined(2)
    /\ net.sub = 2
    /\ net.node[Miner].mempool = {}
    /\ net.node[Coordinator].tip = net.node[Miner].tip


\* C27: the three peers run, each greeted the coordinator with success, the
\* miner has mined a block and no message is in flight: then the three tips
\* are the same hash, and so are the tips the three UTXO sets were built
\* from, which give GetBalance.
C27_TipsConverge ==
    (/\ \A n \in Nodes : net.node[n].up /\ nodeIsKnown(net.node[n].knownNodes, Coordinator)
     /\ net.node[Miner].tip # GenesisHash
     /\ net.msgs = {})
    => \A n \in Nodes :
          /\ net.node[n].tip = net.node[Miner].tip
          /\ net.node[n].utxoTip = net.node[Miner].utxoTip


\* The addresses a handler could not dial
Failed(s) == {s.out[i].to : i \in {j \in 1..Len(s.out) : ~s.out[j].ok}}

\* C29: a send whose dial fails takes the target out of knownNodes and keeps
\* every other entry, in the order it had; a send whose dial succeeds leaves
\* knownNodes as it was.  (Handlers that touch knownNodes only by sending.)
C29_FailedDialEvicts ==
    [][net'.last.op \in {"getdata", "block", "tx"} =>
         Now.knownNodes = SelectSeq(Was.knownNodes, LAMBDA node : node \notin Failed(Now))]_vars

\* The coordinator, knowing both other peers, relayed a transaction of one
\* to the other: the dial failed, and the list still holds the coordinator
\* and the sender, in that order
C29_Witness ==
    /\ net.last.op = "tx"
    /\ Len(net.node[Subject].out) = 1
    /\ ~net.node[Subject].out[1].ok
    /\ net.node[Subject].out[1].to # net.last.m.AddrFrom
    /\ net.node[Subject].knownNodes = <<Subject, net.last.m.AddrFrom>>

----------------------------------------------------------------------------
(* Claims about the mining loop and the blocks bucket of one node *)

\* C28: when the mining loop verifies the mempool and the verification of
\* some transaction ends in an error, that transaction leaves the mempool
\* and the loop goes on to mine the transactions that verified.
C28_ErrorDropped ==
    [][\A h \in DOMAIN th :
          (/\ th[h].pc = "collect"
           /\ th'[h].pc # "collect"
           /\ \E t \in mempool : VerifyTransaction(t).err # Nil)
          => /\ mempool' = {t \in mempool : VerifyTransaction(t).err = Nil}
             /\ {t \in mempool : VerifyTransaction(t).ok} # {} =>
                    /\ th'[h].pc = "verify"
                    /\ {t \in mempool : VerifyTransaction(t).ok} \subseteq Range(th'[h].txs)]_vars


\* C30: a block stored under a hash stays stored under it, unchanged, in
\* every later state of the node.
C30_BlocksKept ==
    [][\A h \in DOMAIN blocks : h \in DOMAIN blocks' /\ blocks'[h] = blocks[h]]_vars

\* A block message with the hash of a stored block and another content was
\* refused, and the node has also mined a block of its own
C30_Witness ==
    /\ ret.op = "AddBlock"
    /\ ret.err = ErrBlockExists
    /\ ret.block # blocks[ret.block.Hash]
    /\ nextCb > 0


----------------------------------------------------------------------------
(* Claims about the blocks a node stores *)

\* C31: every block in a node's blocks bucket has height 0 exactly when its
\* PrevBlockHash is empty.
C31_GenesisIffNoPrev ==
    \A n \in Nodes : \A h \in DOMAIN net.node[n].blocks :
        net.node[n].blocks[h].Height = 0 <=> net.node[n].blocks[h].PrevBlockHash = EmptyHash


\* Candidate nonces on both sides of a new hex digit
NonceSamples == {0, 9, 10, 15, 16, 24, 255, 256, 4095, 4096}

\* The number a string of hex digits stands for
RECURSIVE HexValue(_)
HexValue(ds) ==
    IF ds = <<>> THEN 0 ELSE 16 * HexValue(SubSeq(ds, 1, Len(ds) - 1)) + ds[Len(ds)]

\* Digits only, and no leading zero but for the number 0
PlainHex(ds) ==
    /\ Len(ds) >= 1
    /\ \A i \in 1..Len(ds) : ds[i] \in 0..15
    /\ Len(ds) > 1 => ds[1] # 0

\* The PoW data as one string of bytes (bytes.Join with an empty separator)
Joined(d) == <<d[1]>> \o d[2] \o d[3] \o d[4] \o d[5]

\* C32: for the header of every block and every candidate nonce N the PoW
\* data is PrevBlockHash, the hash of the transactions, hex(Timestamp),
\* hex(24) and hex(N) in this order, each hex plain; the data ends with
\* hex(N), holds the hash of the transactions, and is the same whatever the
\* block's height.
C32_PowData ==
    \A n \in NonceSamples :
        LET d == prepareData(pw.block, n)
            tail == SubSeq(Joined(d), Len(Joined(d)) - Len(d[5]) + 1, Len(Joined(d)))
        IN /\ Len(d) = 5
           /\ d[1] = pw.block.PrevBlockHash
           /\ d[2] = HashTransactions(pw.block)
           /\ PlainHex(d[3]) /\ HexValue(d[3]) = pw.block.Timestamp
           /\ PlainHex(d[4]) /\ HexValue(d[4]) = 24
           /\ PlainHex(d[5]) /\ HexValue(d[5]) = n
           /\ PlainHex(tail) /\ HexValue(tail) = n
           /\ SubSeq(Joined(d), 2, 1 + Len(d[2])) = HashTransactions(pw.block)
           /\ \A h \in 0..MaxPeerHeight : prepareData([pw.block EXCEPT !.Height = h], n) = d

\* A block was built on a header with timestamp 1; its data at the nonce
\* 4095 ends with f, f, f
C32_Witness ==
    /\ pw.pc = "built"
    /\ pw.block.Timestamp = 1
    /\ prepareData(pw.block, 4095)[5] = <<15, 15, 15>>
    /\ prepareData(pw.block, pw.block.Nonce)[5] = <<pw.block.Nonce>>


(* Claims about the mining loop *)
\* C33: a block made by a pass of the mining loop holds every transaction of
\* the mempool that verified in that pass and one new coinbase that pays the
\* subsidy to the mining address; after the pass no transaction of the block
\* is in the miner's mempool, and an inv of kind block with the hash of the
\* block went to each known peer but the miner itself.
C33_MiningPass ==
    [][(net'.last.op = "tx" /\ Now.tip # Was.tip) =>
          LET b == Now.blocks[Now.tip]
              pool == Was.mempool \cup {Handled.Tx}
              cb == Now.cbs[1]
              peers == SelectSeq(Was.knownNodes, LAMBDA node : node # Was.nodeAddress)
          IN /\ Len(Now.cbs) = 1
             /\ IsCoinbase(cb)
             /\ cb.Vout = <<NewTXOutput(subsidy, miningAddress(Was.nodeAddress))>>
             /\ \A h \in DOMAIN Was.blocks : cb.ID \notin Was.blocks[h].Transactions
             /\ b.Transactions = {t \in pool : VerifyTransactionAt(Was, t)} \cup {cb.ID}
             /\ b.PrevBlockHash = Was.tip
             /\ Now.mempool = pool \ b.Transactions
             /\ Now.mempool \cap b.Transactions = {}
             /\ Len(Now.out) = Len(peers)
             /\ \A i \in 1..Len(peers) :
                   /\ Now.out[i].to = peers[i]
                   /\ Now.out[i].cmd = "inv"
                   /\ Now.out[i].Type = "block"
                   /\ Now.out[i].Items = <<b.Hash>>]_vars

\* The miner has just mined a block with the one transaction of its mempool
\* that verified and announced it; the transaction that did not is left
C33_Witness ==
    /\ net.last.op = "tx" /\ net.last.at = Miner
    /\ net.node[Miner].tip # GenesisHash
    /\ Len(net.node[Miner].cbs) = 1
    /\ Cardinality(net.node[Miner].blocks[net.node[Miner].tip].Transactions) = 2
    /\ Cardinality(net.node[Miner].mempool) = 1
    /\ Len(net.node[Miner].out) >= 1


\* The mining loop of every handler that entered it is left again
LoopEnds == \A h \in TxHandlers : (th[h].pc # "idle") ~> (th[h].pc = "idle")

\* C34: the mining loop entered from the tx handler, with no transaction
\* arriving while it runs, is left after finitely many passes, and it is left
\* either with an empty mempool or on a pass in which no transaction of the
\* mempool is valid.
C34_LoopTerminates ==
    /\ LoopEnds
    /\ [][\A h \in TxHandlers :
            (th[h].pc # "idle" /\ th'[h].pc = "idle") =>
                \/ mempool' = {}
                \/ \A t \in mempool : ~VerifyTransaction(t).ok]_vars


(* Claims about what the chain holds *)
\* The inputs of the transactions of the blocks from the tip to the genesis
\* block, each with the output it refers to; a coinbase input refers to none
ChainInputs ==
    UNION {UNION {{[block |-> b.Hash, tx |-> i, vin |-> j,
                    Txid |-> b.Transactions[i].Vin[j].Txid,
                    Vout |-> b.Transactions[i].Vin[j].Vout] :
                      j \in DOMAIN b.Transactions[i].Vin} :
                  i \in {k \in DOMAIN b.Transactions : ~IsCoinbase(b.Transactions[k])}} :
           b \in Range(Iterate)}

\* C35: no output (txid, index) is referred to by more than one input among
\* the transactions of the blocks on the chain from the tip to the genesis
\* block.
C35_SpentOnce ==
    \A x, y \in ChainInputs : (x.Txid = y.Txid /\ x.Vout = y.Vout) => x = y


(* Claims about who may spend an output *)
\* The key pair of the owner of the outputs of SigPrevTXs
OwnerKey == newKeyPair(ByteBase ^ FieldBytes - 1, ByteBase ^ FieldBytes - 1)

\* HashPubKey: RIPEMD-160 of SHA-256 of the public key.  The owner's key
\* hashes to SigOwner; the hash of any other key is not the hash of an output
\* of SigPrevTXs.
HashPubKey(pubKey) == IF pubKey = OwnerKey.pubKey THEN SigOwner ELSE SigOther

\* C36: Verify gives true only if the public key of every input hashes to the
\* PublicKeyHash of the output the input refers to.
C36_VerifyChecksOwner ==
    (sg.pc = "verified" /\ sg.ok /\ ~IsCoinbase(sg.tx)) =>
        \A i \in DOMAIN sg.tx.Vin :
            HashPubKey(sg.tx.Vin[i].PublicKey)
                = SigPrevTXs[sg.tx.Vin[i].Txid].Vout[sg.tx.Vin[i].Vout + 1].PublicKeyHash


(* Claims about the value on the chain *)
\* The sum of the values of all outputs of a bucket of the UTXO index
RECURSIVE TotalFrom(_, _, _)
TotalFrom(bucket, keys, j) ==
    IF j > Len(keys) THEN 0
    ELSE SumValues(bucket[keys[j]]) + TotalFrom(bucket, keys, j + 1)

TotalValue(bucket) == TotalFrom(bucket, KeysInOrder(DOMAIN bucket), 1)

\* C37: after Create, sends that mine and Reindex, the values of all outputs
\* in the UTXO index add up to the subsidy times the number of blocks on the
\* chain from the tip to the genesis block.
C37_TotalIsSubsidies ==
    (ux.db /\ ux.ret.op = "reindex" /\ ux.ret.err = Nil) =>
        TotalValue(ux.chainstate) = subsidy * Len(Iterate)


(* Claims about the blocks in transit *)
\* The hashes a handler asked for with getdata, and the peers it asked
Asked(s) == {s.out[i].Items[1] : i \in {j \in 1..Len(s.out) : s.out[j].cmd = "getdata"}}
AskedOf(s) == {s.out[i].to : i \in {j \in 1..Len(s.out) : s.out[j].cmd = "getdata"}}

\* C38: when `block` invs of two peers, or a block message of a peer that is
\* not the announcer, are handled in any order, a hash that waits in
\* blocksInTransit is after each handler still waiting there or has just been
\* asked for, and what is asked for is asked of the peer that announced it.
C38_TransitKept ==
    [][(net'.last.op \in {"inv", "block"}) =>
          /\ \A h \in Range(Was.blocksInTransit) :
                h \in Range(Now.blocksInTransit) \/ h \in Asked(Now)
          /\ AskedOf(Now) \subseteq {Now.ann}]_vars


(* Claims about the known peers *)
\* C39: the list of known peers of every running node is not empty and
\* starts with localhost:5000, so that the test of the tx handler,
\* nodeAddress = knownNodes[0], holds exactly on the node at localhost:5000.
C39_CoordinatorFirst ==
    \A n \in Nodes :
        net.node[n].up =>
            /\ Len(net.node[n].knownNodes) >= 1
            /\ net.node[n].knownNodes[1] = Coordinator
            /\ (n = net.node[n].knownNodes[1]) <=> (n = Coordinator)


\* C40: no transaction id is in more than one block of the chain from the
\* tip to the genesis block, also when two tx handlers run the mining loop
\* over the same mempool and when a mined transaction is delivered again.
C40_MinedOnce ==
    \A i, j \in DOMAIN Iterate :
        i # j => TxIDs(Iterate[i]) \cap TxIDs(Iterate[j]) = {}

============================================================================
